---- MODULE Spec2Model ----
(***************************************************************************)
(* Model of the lesson-planning assistant (PR-FP).                         *)
(*                                                                         *)
(*  - Markdown renderer of the Lesson Builder: the export path             *)
(*    markdownToHtml and the preview path MarkdownPreview, line by line.   *)
(*  - Lesson Builder workflow: generate (handleSubmit), reformat           *)
(*    (handleFormat) and save (handleSave) against the lessons table of    *)
(*    the data store.                                                      *)
(*  - Live Voice session: start, callbacks, teardown and the playback       *)
(*    scheduling of incoming audio chunks.                                  *)
(*  - Research chat: handleSend and the two calls of chatWithSearch.        *)
(*  - Lesson Builder editor: PDF export and read-aloud, across remounts.    *)
(*  - Saved Lessons Browser: summary list, open, delete, filters and sort,  *)
(*    with this client as the only writer of the store.                     *)
(*  - App: the tab bar, the lesson handed from the browser to the editor, *)
(*    and the theme settings mirrored to the profiles table.               *)
(*                                                                         *)
(* Text is a sequence of tokens. A token is one character, except "<br>",  *)
(* which stands for any tag matched by /<br\s*\/?>/gi, and "[SCHEMA]",     *)
(* which stands for that literal text.                                     *)
(***************************************************************************)
EXTENDS Integers, Sequences, FiniteSets, TLC

VARIABLES
    md,        \* renderer input: the lines of markdown.split('\n')
    html,      \* markdownToHtml: loop position, inTable, tableBuffer, inList, output
    preview,   \* MarkdownPreview: loop position, inTable, tableBuffer, elements
    builder,   \* LessonBuilder component state (useState hooks)
    lessons,   \* rows of the lessons table of the data store
    requests,  \* LessonBuilder requests in flight (generation, inserts, updates)
    live,      \* LiveTutor component state (useState hooks and refs)
    sessions,  \* Live API sessions opened by startSession, by number
    audio,     \* output audio context: clock, chunks being decoded, chunks scheduled
    chat,      \* KnowledgeBase component state and the calls made to the model
    browser,   \* SavedLessons component state (useState hooks)
    media,     \* LessonBuilder PDF export and read-aloud: flags, timers, playbacks
    app,       \* App component state (useState hooks)
    profile    \* the profiles row of the user and the requests made on it

renderVars == <<md, html, preview>>
builderVars == <<builder, lessons, requests>>
liveVars == <<live, sessions, audio>>
chatVars == <<chat>>
browserVars == <<browser>>
mediaVars == <<media>>
appVars == <<app, profile>>

vars == <<md, html, preview, builder, lessons, requests, live, sessions, audio,
          chat, browser, media, app, profile>>

-----------------------------------------------------------------------------
(* Bounds of the renderer inputs *)

MaxLines == 3
MaxDataRows == 2
MaxBullets == 2

-----------------------------------------------------------------------------
(* String primitives (String.prototype methods used by the renderer) *)

Max(a, b) == IF a > b THEN a ELSE b

StartsWith(s, p) == Len(s) >= Len(p) /\ SubSeq(s, 1, Len(p)) = p

EndsWith(s, p) == Len(s) >= Len(p) /\ SubSeq(s, Len(s) - Len(p) + 1, Len(s)) = p

Substring(s, n) == SubSeq(s, n + 1, Len(s))

Count(s, c) == Cardinality({i \in 1..Len(s) : s[i] = c})

\* String.prototype.trim: whitespace removed at both ends
Trim(s) ==
    LET ns == {i \in 1..Len(s) : s[i] # " "}
    IN  IF ns = {} THEN <<>>
        ELSE SubSeq(s, CHOOSE i \in ns : \A j \in ns : i <= j,
                       CHOOSE i \in ns : \A j \in ns : i >= j)

\* s.replace(/^\s+/, '')
TrimStart(s) ==
    LET ns == {i \in 1..Len(s) : s[i] # " "}
    IN  IF ns = {} THEN <<>>
        ELSE SubSeq(s, CHOOSE i \in ns : \A j \in ns : i <= j, Len(s))

\* s.split(sep) for a one-character separator: Count(s, sep) + 1 parts
RECURSIVE Split(_, _)
Split(s, sep) ==
    LET at == {i \in 1..Len(s) : s[i] = sep}
    IN  IF at = {} THEN <<s>>
        ELSE LET i == CHOOSE x \in at : \A y \in at : x <= y
             IN  <<SubSeq(s, 1, i - 1)>> \o Split(SubSeq(s, i + 1, Len(s)), sep)

RECURSIVE Concat(_)
Concat(ss) == IF ss = <<>> THEN <<>> ELSE Head(ss) \o Concat(Tail(ss))

-----------------------------------------------------------------------------
(* isTableSeparator and cleanTextArtifacts *)

SeparatorChars == {" ", "-", ":", "|"}

\* /^\|?[\s\-:|]+\|?$/ on the trimmed line, and at least 3 dashes
isTableSeparator(line) ==
    LET cleanLine == Trim(line)
    IN  /\ Len(cleanLine) >= 1
        /\ \A i \in 1..Len(cleanLine) : cleanLine[i] \in SeparatorChars
        /\ Count(cleanLine, "-") >= 3

\* .replace(/<br\s*\/?>/gi, '')
RemoveBr(text) == SelectSeq(text, LAMBDA c : c # "<br>")

\* .replace(/\$(.*?)\$/g, '$1'): each "$" is paired with the next one and both
\* are dropped; a last unpaired "$" stays
RECURSIVE UnwrapDollars(_)
UnwrapDollars(text) ==
    LET at == {i \in 1..Len(text) : text[i] = "$"}
    IN  IF Cardinality(at) < 2 THEN text
        ELSE LET i == CHOOSE x \in at : \A y \in at : x <= y
                 j == CHOOSE x \in at \ {i} : \A y \in at \ {i} : x <= y
             IN  SubSeq(text, 1, i - 1) \o SubSeq(text, i + 1, j - 1)
                   \o UnwrapDollars(SubSeq(text, j + 1, Len(text)))

cleanTextArtifacts(text) == UnwrapDollars(RemoveBr(text))

-----------------------------------------------------------------------------
(* Bold spans: the regular expression /\*\*(.*?)\*\*/g *)

Seg(b, t) == [b |-> b, t |-> t]

\* positions where "**" starts
StarPairs(s) == {i \in 1..(Len(s) - 1) : s[i] = "*" /\ s[i + 1] = "*"}

\* The parts of s.split(/(\*\*.*?\*\*)/g): plain part, match, plain part, ...
\* A match is recorded with its markers, as split returns it.
RECURSIVE BoldParts(_)
BoldParts(s) ==
    LET open == {i \in StarPairs(s) : \E j \in StarPairs(s) : j >= i + 2}
    IN  IF open = {} THEN <<s>>
        ELSE LET i == CHOOSE x \in open : \A y \in open : x <= y
                 close == {j \in StarPairs(s) : j >= i + 2}
                 j == CHOOSE x \in close : \A y \in close : x <= y
             IN  <<SubSeq(s, 1, i - 1), SubSeq(s, i, j + 1)>>
                   \o BoldParts(SubSeq(s, j + 2, Len(s)))

DropEmptyPlain(segs) == SelectSeq(segs, LAMBDA g : g.b \/ g.t # <<>>)

\* text.replace(/\*\*(.*?)\*\*/g, '<strong>$1</strong>'): the matches (the
\* even parts) become <strong> spans, the text between them is copied
BoldToStrong(s) ==
    LET parts == BoldParts(s)
    IN  DropEmptyPlain([n \in 1..Len(parts) |->
            IF n % 2 = 0
            THEN Seg(TRUE, SubSeq(parts[n], 3, Len(parts[n]) - 2))
            ELSE Seg(FALSE, parts[n])])

\* parts.map(part => part.startsWith('**') && part.endsWith('**')
\*                     ? <strong>{part.slice(2, -2)}</strong> : <span>{part}</span>)
BoldToNodes(s) ==
    LET parts == BoldParts(s)
    IN  [n \in 1..Len(parts) |->
            IF StartsWith(parts[n], <<"*", "*">>) /\ EndsWith(parts[n], <<"*", "*">>)
            THEN Seg(TRUE, SubSeq(parts[n], 3, Len(parts[n]) - 2))
            ELSE Seg(FALSE, parts[n])]

\* text.replace(/\*\*(.*?)\*\*/g, '$1'): markers dropped, nothing emphasized
BoldToPlain(s) ==
    LET parts == BoldParts(s)
    IN  <<Seg(FALSE, Concat([n \in 1..Len(parts) |->
            IF n % 2 = 0 THEN SubSeq(parts[n], 3, Len(parts[n]) - 2)
            ELSE parts[n]]))>>

-----------------------------------------------------------------------------
(* Output elements of both renderers.  k is the element, src the 1-based    *)
(* number of the line that emitted it (for a table: the line that flushed   *)
(* it, Len(md) + 1 at end of input), segs its inline content, rows its      *)
(* table rows; arg is the text the inline (bold) processing was applied to.  *)

El(k, src, arg, segs, rows) ==
    [k |-> k, src |-> src, arg |-> arg, segs |-> segs, rows |-> rows]

Cell(arg, segs) == [arg |-> arg, segs |-> segs]

Plain(t) == <<Seg(FALSE, t)>>

SchemaMark == <<">", " ", "[SCHEMA]">>
H2Mark == <<"#", "#", " ">>
H3Mark == <<"#", "#", "#", " ">>
DashBullet == <<"-", " ">>
StarBullet == <<"*", " ">>

\* buffer.filter(row => !isTableSeparator(row))
FilterRows(buffer) == SelectSeq(buffer, LAMBDA row : ~isTableSeparator(row))

\* row.trim().replace(/^\||\|$/g, '').split('|')
RowCells(row) ==
    LET r == Trim(row)
        a == IF StartsWith(r, <<"|">>) THEN Substring(r, 1) ELSE r
        b == IF EndsWith(a, <<"|">>) THEN SubSeq(a, 1, Len(a) - 1) ELSE a
    IN  Split(b, "|")

-----------------------------------------------------------------------------
(* markdownToHtml *)

\* the branch of the forEach body a line takes
HtmlClassifyNoSchema(line) ==
    LET t == Trim(line)
        trimmed == cleanTextArtifacts(t)
    IN  IF StartsWith(t, <<"|">>) THEN "table"
        ELSE IF StartsWith(trimmed, H2Mark) THEN "h2"
        ELSE IF StartsWith(trimmed, H3Mark) THEN "h3"
        ELSE IF StartsWith(trimmed, DashBullet) \/ StartsWith(trimmed, StarBullet) THEN "li"
        ELSE IF trimmed = <<>> THEN "br"
        ELSE "p"

HtmlClassify(line) ==
    LET t == Trim(line)
        trimmed == cleanTextArtifacts(t)
    IN  IF StartsWith(t, <<"|">>) THEN "table"
        ELSE IF StartsWith(trimmed, SchemaMark) THEN "schema"
        ELSE IF StartsWith(trimmed, H2Mark) THEN "h2"
        ELSE IF StartsWith(trimmed, H3Mark) THEN "h3"
        ELSE IF StartsWith(trimmed, DashBullet) \/ StartsWith(trimmed, StarBullet) THEN "li"
        ELSE IF trimmed = <<>> THEN "br"
        ELSE "p"

HtmlRow(row, rowIndex) ==
    LET cells == RowCells(row)
    IN  [hdr |-> rowIndex = 1,
         cells |-> [c \in 1..Len(cells) |->
                      LET arg == cleanTextArtifacts(Trim(cells[c]))
                      IN  Cell(arg, BoldToStrong(arg))]]

\* flushTable: nothing for a buffer of fewer than 2 lines
flushTable(buffer, src) ==
    IF Len(buffer) < 2 THEN <<>>
    ELSE LET rows == FilterRows(buffer)
         IN  <<El("table", src, <<>>, <<>>, [r \in 1..Len(rows) |-> HtmlRow(rows[r], r)])>>

HtmlInit ==
    [i |-> 0, inTable |-> FALSE, tableBuffer |-> <<>>, inList |-> FALSE,
     out |-> <<>>, kinds |-> <<>>, done |-> FALSE]

\* one iteration of lines.forEach.  The export is requested from the editor,
\* which has rendered the preview of the same content before.
HtmlLine ==
    /\ preview.done
    /\ html.i < Len(md)
    /\ LET n == html.i + 1
           line == md[n]
           t == Trim(line)
           trimmed == cleanTextArtifacts(t)
           kind == HtmlClassify(line)
           flushed == IF html.inTable THEN flushTable(html.tableBuffer, n) ELSE <<>>
           base == [html EXCEPT !.i = n, !.kinds = Append(@, kind)]
           afterTable == [base EXCEPT !.inTable = FALSE, !.tableBuffer = <<>>,
                                      !.out = @ \o flushed]
       IN  html' =
             CASE kind = "table" ->
                    [base EXCEPT !.inTable = TRUE, !.tableBuffer = Append(@, t)]
               [] kind = "schema" ->
                    [afterTable EXCEPT !.out = Append(@,
                        El("schema", n, <<>>, Plain(Trim(Substring(trimmed, Len(SchemaMark)))), <<>>))]
               [] kind = "h2" ->
                    [afterTable EXCEPT !.out = Append(@,
                        El("h2", n, <<>>, Plain(Substring(trimmed, 3)), <<>>))]
               [] kind = "h3" ->
                    [afterTable EXCEPT !.out = Append(@,
                        El("h3", n, <<>>, Plain(Substring(trimmed, 4)), <<>>))]
               [] kind = "li" ->
                    [afterTable EXCEPT
                        !.inList = TRUE,
                        !.out = (IF html.inList THEN @ ELSE Append(@, El("ul", n, <<>>, <<>>, <<>>)))
                                  \o <<El("li", n, Substring(trimmed, 2), BoldToStrong(Substring(trimmed, 2)), <<>>)>>]
               [] OTHER ->
                    [afterTable EXCEPT
                        !.inList = FALSE,
                        !.out = (IF html.inList THEN Append(@, El("/ul", n, <<>>, <<>>, <<>>)) ELSE @)
                                  \o <<IF trimmed = <<>>
                                       THEN El("br", n, <<>>, <<>>, <<>>)
                                       ELSE El("p", n, trimmed, BoldToStrong(trimmed), <<>>)>>]
    /\ UNCHANGED <<md, preview, builderVars, liveVars, chatVars, browserVars, mediaVars, appVars>>

\* after the loop: if (inTable) flush; if (inList) close the list
HtmlEnd ==
    /\ preview.done
    /\ html.i = Len(md)
    /\ ~html.done
    /\ html' = [html EXCEPT
                  !.done = TRUE,
                  !.out = (@ \o (IF html.inTable
                                 THEN flushTable(html.tableBuffer, Len(md) + 1) ELSE <<>>))
                            \o (IF html.inList
                                THEN <<El("/ul", Len(md) + 1, <<>>, <<>>, <<>>)>> ELSE <<>>)]
    /\ UNCHANGED <<md, preview, builderVars, liveVars, chatVars, browserVars, mediaVars, appVars>>

-----------------------------------------------------------------------------
(* MarkdownPreview *)

\* the branch of the for body a line takes
PreviewClassify(l) ==
    LET line == cleanTextArtifacts(Trim(l))
    IN  IF StartsWith(line, <<"|">>) THEN "table"
        ELSE IF StartsWith(line, SchemaMark) THEN "schema"
        ELSE IF StartsWith(line, H2Mark) THEN "h2"
        ELSE IF StartsWith(line, H3Mark) THEN "h3"
        ELSE IF StartsWith(line, DashBullet) \/ StartsWith(line, StarBullet) THEN "li"
        ELSE IF line = <<>> THEN "br"
        ELSE "p"

PreviewRow(row, rowIndex) ==
    LET cells == RowCells(row)
    IN  [hdr |-> rowIndex = 1,
         cells |-> [c \in 1..Len(cells) |->
                      LET arg == cleanTextArtifacts(Trim(cells[c]))
                      IN  Cell(arg, BoldToPlain(arg))]]

\* renderTable: null (no element) when only separator rows were buffered
renderTable(buffer, src) ==
    LET rows == FilterRows(buffer)
    IN  IF Len(rows) = 0 THEN <<>>
        ELSE <<El("table", src, <<>>, <<>>, [r \in 1..Len(rows) |-> PreviewRow(rows[r], r)])>>

PreviewInit ==
    [i |-> 0, inTable |-> FALSE, tableBuffer |-> <<>>,
     out |-> <<>>, kinds |-> <<>>, done |-> FALSE]

\* one iteration of the for loop
PreviewLine ==
    /\ preview.i < Len(md)
    /\ LET n == preview.i + 1
           line == cleanTextArtifacts(Trim(md[n]))
           kind == PreviewClassify(md[n])
           flushed == IF preview.inTable THEN renderTable(preview.tableBuffer, n) ELSE <<>>
           base == [preview EXCEPT !.i = n, !.kinds = Append(@, kind)]
           afterTable == [base EXCEPT !.inTable = FALSE, !.tableBuffer = <<>>,
                                      !.out = @ \o flushed]
       IN  preview' =
             CASE kind = "table" ->
                    [base EXCEPT !.inTable = TRUE, !.tableBuffer = Append(@, line)]
               [] kind = "schema" ->
                    [afterTable EXCEPT !.out = Append(@,
                        El("schema", n, <<>>, Plain(Trim(Substring(line, Len(SchemaMark)))), <<>>))]
               [] kind = "h2" ->
                    [afterTable EXCEPT !.out = Append(@,
                        El("h2", n, <<>>, Plain(TrimStart(Substring(line, 2))), <<>>))]
               [] kind = "h3" ->
                    [afterTable EXCEPT !.out = Append(@,
                        El("h3", n, <<>>, Plain(TrimStart(Substring(line, 3))), <<>>))]
               [] kind = "li" ->
                    [afterTable EXCEPT !.out = Append(@,
                        El("li", n, TrimStart(Substring(line, 1)),
                                 BoldToNodes(TrimStart(Substring(line, 1))), <<>>))]
               [] kind = "br" ->
                    [afterTable EXCEPT !.out = Append(@, El("br", n, <<>>, <<>>, <<>>))]
               [] OTHER ->
                    [afterTable EXCEPT !.out = Append(@, El("p", n, line, BoldToNodes(line), <<>>))]
    /\ UNCHANGED <<md, html, builderVars, liveVars, chatVars, browserVars, mediaVars, appVars>>

\* after the loop: if (inTable) elements.push(renderTable(tableBuffer, lines.length))
PreviewEnd ==
    /\ preview.i = Len(md)
    /\ ~preview.done
    /\ preview' = [preview EXCEPT
                     !.done = TRUE,
                     !.out = @ \o (IF preview.inTable
                                   THEN renderTable(preview.tableBuffer, Len(md) + 1)
                                   ELSE <<>>)]
    /\ UNCHANGED <<md, html, builderVars, liveVars, chatVars, browserVars, mediaVars, appVars>>

-----------------------------------------------------------------------------
(* Renderer inputs: every document of at most MaxLines lines over LineSet,  *)
(* table blocks (header row, separator row, data rows), and documents made  *)
(* of a header line, bullet lines and a table block that ends the input.    *)

SeqsUpTo(S, lo, hi) == UNION {[1..n -> S] : n \in lo..hi}

LineSet ==
    { <<>>,                                                \* blank line
      <<"|", "a", "|">>,                                   \* |a|
      <<"|", "-", "-", "-", "|">>,                         \* |---|
      <<"#", "#", " ", "T">>,                              \* ## T
      <<"#", "#", "#", " ", "T">>,                         \* ### T
      <<"-", " ", "*", "*", "a", "*", "*", ":", "b">>,     \* - **a**:b
      <<">", " ", "[SCHEMA]", " ", "D">>,                  \* > [SCHEMA] D
      <<" ", ">", " ", "[SCHEMA]", " ", "$", "D", "$">>,   \*  > [SCHEMA] $D$
      <<"x", "*", "*", "b", "*", "*">>,                    \* x**b**
      <<"$", "|", "a", "|", "$">>,                         \* $|a|$
      <<"<br>", " ", "#", "#", " ", "T">> }                \* <br> ## T

HeaderRows ==
    { <<"|", "H", "|", "K", "|">>,                         \* |H|K|
      <<"|", "*", "*", "H", "*", "*", "|", "K", "|">> }    \* |**H**|K|

SeparatorRows ==
    { <<"|", "-", "-", "-", "|", "-", "-", "-", "|">>,     \* |---|---|
      <<"|", ":", "-", "-", "|", "-", "-", ":", "|">> }    \* |:--|--:|

DataRows ==
    { <<"|", "x", "|", "y", "|">>,                         \* |x|y|
      <<"|", "*", "*", "x", "*", "*", "|", "y", "|">>,     \* |**x**|y|
      <<"|", "-", "|", "-", "-", "|">> }                   \* |-|--|

BulletLines ==
    { <<"-", " ", "*", "*", "a", "*", "*", ":", "b">>,     \* - **a**:b
      <<"*", " ", "c", "*", "*", "d", "*", "*">> }         \* * c**d**

TitleLines == { <<"#", "#", " ", "T">> }

TableBlocks ==
    { <<h, s>> \o d : h \in HeaderRows, s \in SeparatorRows,
                      d \in SeqsUpTo(DataRows, 0, MaxDataRows) }

ScenarioDocs ==
    { <<t>> \o b \o tb : t \in TitleLines, b \in SeqsUpTo(BulletLines, 1, MaxBullets),
                          tb \in TableBlocks }

Inputs == SeqsUpTo(LineSet, 1, MaxLines) \cup TableBlocks \cup ScenarioDocs

RenderDone == html.done /\ preview.done

-----------------------------------------------------------------------------
(* Properties of the renderer *)

Headers == {"h2", "h3"}

\* the elements of an output without the list wrappers of the export path
Visible(out) == SelectSeq(out, LAMBDA e : e.k \notin {"ul", "/ul"})

\* element kinds, with the number of rows of each table
Structure(out) ==
    LET v == Visible(out)
    IN  [n \in 1..Len(v) |-> <<v[n].k, Len(v[n].rows)>>]

OnlyOut(out, k) == SelectSeq(out, LAMBDA e : e.k = k)

NumBold(segs) == Len(SelectSeq(segs, LAMBDA g : g.b))

SegText(segs) == Concat([n \in 1..Len(segs) |-> segs[n].t])

WithoutStars(s) == SelectSeq(s, LAMBDA c : c # "*")

\* balanced markers: the stars of the text come in runs of exactly two, and
\* there is an even number of runs, at least two
Balanced(s) ==
    /\ Count(s, "*") > 0
    /\ Count(s, "*") % 4 = 0
    /\ \A i \in 1..Len(s) : s[i] = "*" =>
          ((i > 1 /\ s[i - 1] = "*") # (i < Len(s) /\ s[i + 1] = "*"))

\* a span of the text is emphasized for each pair of markers, and the rendered
\* text is the text without its markers
Emphasized(arg, segs) ==
    /\ NumBold(segs) = Count(arg, "*") \div 4
    /\ SegText(segs) = WithoutStars(arg)
    /\ \A n \in 1..Len(segs) : segs[n].b => segs[n].t # <<>>

InlineOk(out) ==
    \A n \in 1..Len(out) :
        /\ (out[n].k \in {"p", "li"} /\ Balanced(out[n].arg))
              => Emphasized(out[n].arg, out[n].segs)
        /\ \A r \in 1..Len(out[n].rows) : \A c \in 1..Len(out[n].rows[r].cells) :
              Balanced(out[n].rows[r].cells[c].arg)
                 => Emphasized(out[n].rows[r].cells[c].arg, out[n].rows[r].cells[c].segs)

\* C3: once both renderers have finished, the export path and the preview path
\* have classified every line into the same kind and their outputs hold the
\* same sequence of structural elements, tables with the same number of rows.
C3_SameStructure ==
    RenderDone =>
        /\ html.kinds = preview.kinds
        /\ Structure(html.out) = Structure(preview.out)

\* C4: in both output modes, right after a header line has been processed no
\* list and no table is open and no table row is still buffered.
C4_HeaderClosesListAndTable ==
    /\ (html.i > 0 /\ html.kinds[html.i] \in Headers)
          => (~html.inList /\ ~html.inTable /\ html.tableBuffer = <<>>)
    /\ (preview.i > 0 /\ preview.kinds[preview.i] \in Headers)
          => (~preview.inTable /\ preview.tableBuffer = <<>>)

\* only pipes, dashes, colons and whitespace, with at least 3 dashes
ValidSeparatorRow(line) ==
    /\ line # <<>>
    /\ \A i \in 1..Len(line) : line[i] \in {"|", "-", ":", " "}
    /\ Count(line, "-") >= 3

\* a header row, a valid separator row as the second line, and N data rows
IsTableBlock(doc) ==
    /\ Len(doc) >= 2
    /\ \A n \in 1..Len(doc) : StartsWith(doc[n], <<"|">>)
    /\ ~ValidSeparatorRow(doc[1])
    /\ ValidSeparatorRow(doc[2])

TableOf(out, N) ==
    /\ Len(out) = 1
    /\ out[1].k = "table"
    /\ Len(out[1].rows) = 1 + N
    /\ \A r \in 1..Len(out[1].rows) : out[1].rows[r].hdr = (r = 1)

\* C5: for a table block of a header row, a valid separator row and N data
\* rows, each renderer emits one table of the header row and exactly N data
\* rows, and no row for the separator.
C5_TableRowCount ==
    (RenderDone /\ IsTableBlock(md)) =>
        /\ TableOf(html.out, Len(md) - 2)
        /\ TableOf(preview.out, Len(md) - 2)

\* C6: in both output modes, every paragraph, list item and table cell whose
\* text has balanced ** markers is rendered with one emphasized span per
\* marker pair, markers removed, and the remaining text unchanged.
C6_BoldSpansEmphasized == InlineOk(html.out) /\ InlineOk(preview.out)

IsSchemaLine(line) == StartsWith(Trim(line), SchemaMark)

\* the description that follows the marker, artifacts removed
SchemaDescription(line) ==
    Trim(cleanTextArtifacts(Substring(Trim(line), Len(SchemaMark))))

SchemaOk(r, n) ==
    r.i >= n =>
        /\ r.kinds[n] = "schema"
        /\ \E m \in 1..Len(r.out) :
              /\ r.out[m].k = "schema"
              /\ r.out[m].src = n
              /\ r.out[m].segs = Plain(SchemaDescription(md[n]))
        /\ \A m \in 1..Len(r.out) :
              r.out[m].src = n => r.out[m].k \in {"schema", "table"}
        /\ \A m \in 1..Len(r.tableBuffer) : ~IsSchemaLine(r.tableBuffer[m])

\* C7: in both output modes, a processed line that starts with > [SCHEMA] is
\* classified as a schema block and emitted as one call-out that carries its
\* description; it yields no paragraph or list item and is not buffered as a
\* table row, whatever precedes it.
C7_SchemaLineIsCallout ==
    \A n \in 1..Len(md) : IsSchemaLine(md[n]) => (SchemaOk(html, n) /\ SchemaOk(preview, n))

\* a schema line that follows an open list or an open table has been rendered
\* by both renderers
C7_Witness ==
    /\ RenderDone
    /\ \E n \in 2..Len(md) :
          /\ IsSchemaLine(md[n])
          /\ html.kinds[n - 1] \in {"li", "table"}
          /\ preview.kinds[n - 1] \in {"li", "table"}
          /\ \E m \in 1..Len(html.out) : html.out[m].k = "schema" /\ html.out[m].src = n
          /\ \E m \in 1..Len(preview.out) : preview.out[m].k = "schema" /\ preview.out[m].src = n

IsBullet(line) == StartsWith(line, DashBullet) \/ StartsWith(line, StarBullet)

\* a ## header line, bullet lines, then a table block that ends the input
IsScenario(doc) ==
    /\ Len(doc) >= 4
    /\ StartsWith(doc[1], H2Mark)
    /\ \E L \in 1..(Len(doc) - 3) :
          /\ \A n \in 2..(L + 1) : IsBullet(doc[n])
          /\ IsTableBlock(SubSeq(doc, L + 2, Len(doc)))

NumBullets(doc) == Cardinality({n \in 1..Len(doc) : IsBullet(doc[n])})

ScenarioOut(out, doc) ==
    LET v == Visible(out)
        L == NumBullets(doc)
    IN  /\ Len(v) = L + 2
        /\ v[1].k = "h2" /\ v[1].segs = Plain(Substring(doc[1], 3))
        /\ \A n \in 2..(L + 1) :
              /\ v[n].k = "li"
              /\ Balanced(v[n].arg) => Emphasized(v[n].arg, v[n].segs)
        /\ TableOf(<<v[L + 2]>>, Len(doc) - L - 3)

\* C8: for a ## header line, bullet lines with bold spans and a table block
\* that ends the input, each renderer emits one header with the header text,
\* one list item per bullet with its spans bold, and one table of the header
\* row and the data rows, flushed at end of input.
C8_ScenarioOutput ==
    (RenderDone /\ IsScenario(md)) =>
        (ScenarioOut(html.out, md) /\ ScenarioOut(preview.out, md))

StructuralKinds == {"table", "h2", "h3", "li"}

\* C9: in both output modes, a processed line that is a table row, header or
\* list item once its artifacts are removed has been classified as that kind.
C9_ClassifyAfterStrip ==
    /\ \A n \in 1..html.i :
          HtmlClassify(cleanTextArtifacts(md[n])) \in StructuralKinds
             => html.kinds[n] = HtmlClassify(cleanTextArtifacts(md[n]))
    /\ \A n \in 1..preview.i :
          PreviewClassify(cleanTextArtifacts(md[n])) \in StructuralKinds
             => preview.kinds[n] = PreviewClassify(cleanTextArtifacts(md[n]))

-----------------------------------------------------------------------------
(* Lesson Builder: generation and save.  The component is mounted on the    *)
(* generator tab with a signed-in user.  A handler that awaits is split at  *)
(* its await: the request goes in flight with the values the handler        *)
(* captured, and the continuation runs when the response arrives.           *)

MaxRequests == 4

NoId == 0
Null == "null"

\* texts of generateLessonPlan on an empty response and on a failed request
EmptyResponseText == "Erreur lors de la generation du contenu."
RequestFailedText == "Une erreur est survenue lors de la communication avec l'IA."

Contents == {"plan", "edited"}

BuilderState ==
    [loading |-> FALSE, result |-> Null, isEditing |-> FALSE,
     viewMode |-> "preview", currentLessonId |-> NoId,
     alert |-> "none",     \* the last alert() shown
     draft |-> 0,          \* number of the draft in the editor
     lastGen |-> "none",   \* outcome of the last gateway request
     seq |-> 0,            \* requests issued so far
     formatting |-> FALSE,
     unsaved |-> FALSE]    \* the content was typed in and not saved since

BuilderInit ==
    /\ builder = BuilderState
    /\ lessons = {}
    /\ requests = {}

\* if (result && isEditing) the editor is rendered, otherwise the form
EditorShown == builder.result # Null /\ builder.isEditing

\* ---- App, the parent of the tabs ----

\* the initial themeSettings of App
DefaultSettings ==
    [color |-> "ocean", mode |-> "sky", teacherName |-> "", teacherPhone |-> ""]

\* lessonToEdit is null, or one full row of the store
NoLesson == <<>>

AppState ==
    [activeTab |-> "generator", lessonToEdit |-> NoLesson, refreshSavedList |-> 0,
     themeSettings |-> DefaultSettings,
     switches |-> 0,                \* clicks on the tab bar so far
     updates |-> 0,                 \* calls of handleUpdateSettings so far
     intended |-> DefaultSettings]  \* the settings as of the last of these calls

\* no request on the profiles row is modelled
ProfileIdle == profile = [rows |-> {}, requests |-> {}, failed |-> FALSE]

AppInit ==
    /\ app = AppState
    /\ ProfileIdle

\* handleLessonSaved
handleLessonSaved(a) == [a EXCEPT !.refreshSavedList = @ + 1]

\* handleClearSelection
handleClearSelection(a) == [a EXCEPT !.lessonToEdit = NoLesson]

\* handleEditLesson
handleEditLesson(a, lesson) ==
    [a EXCEPT !.lessonToEdit = <<lesson>>, !.activeTab = "generator"]

\* the effect of LessonBuilder on its initialLesson prop
InitialLessonEffect(b, initialLesson) ==
    IF initialLesson = NoLesson THEN b
    ELSE [b EXCEPT !.result = initialLesson[1].content,
                   !.currentLessonId = initialLesson[1].id,
                   !.isEditing = TRUE, !.viewMode = "preview", !.unsaved = FALSE]

\* the state hooks of a LessonBuilder instance that is not shown, or has
\* just been created (the counters and logs of the model are kept)
FreshBuilder(b) ==
    [b EXCEPT !.loading = FALSE, !.result = Null, !.isEditing = FALSE,
              !.viewMode = "preview", !.currentLessonId = NoId,
              !.formatting = FALSE, !.unsaved = FALSE]

\* App renders <LessonBuilder initialLesson={lessonToEdit} ...>: a new
\* instance, whose effect then runs
MountLessonBuilder(b, initialLesson) == InitialLessonEffect(FreshBuilder(b), initialLesson)

Request(kind, id, content) ==
    [kind |-> kind, n |-> builder.seq + 1, id |-> id, content |-> content,
     draft |-> builder.draft]

\* generateLessonPlan: the text of the response, a fixed text for an empty
\* response, and, in its catch block, a fixed text for a request that threw
generateLessonPlan(outcome) ==
    CASE outcome = "text" -> [threw |-> FALSE, value |-> "plan"]
      [] outcome = "empty" -> [threw |-> FALSE, value |-> EmptyResponseText]
      [] outcome = "error" -> [threw |-> FALSE, value |-> RequestFailedText]

\* handleSubmit up to its await (the submit button is disabled while loading)
HandleSubmit ==
    /\ ~EditorShown
    /\ ~builder.loading
    /\ builder.seq < MaxRequests
    /\ requests' = requests \cup
          {[Request("generate", NoId, Null) EXCEPT !.draft = builder.draft + 1]}
    /\ builder' = [builder EXCEPT !.loading = TRUE, !.currentLessonId = NoId,
                                  !.draft = @ + 1, !.lastGen = "pending", !.seq = @ + 1]
    /\ UNCHANGED <<lessons, renderVars, liveVars, chatVars, browserVars, mediaVars, appVars>>

\* handleSubmit after its await: try / catch / finally
GenerateReturn ==
    \E r \in requests : \E outcome \in {"text", "empty", "error"} :
        /\ r.kind = "generate"
        /\ requests' = requests \ {r}
        /\ LET generatedPlan == generateLessonPlan(outcome)
               gen == IF outcome = "error" THEN "failed" ELSE "ok"
           IN  builder' =
                 IF generatedPlan.threw
                 THEN [builder EXCEPT !.alert = "generationError", !.loading = FALSE,
                                      !.lastGen = gen]
                 ELSE [builder EXCEPT !.result = generatedPlan.value, !.isEditing = TRUE,
                                      !.viewMode = "preview", !.loading = FALSE,
                                      !.lastGen = gen, !.unsaved = FALSE]
        /\ UNCHANGED <<lessons, renderVars, liveVars, chatVars, browserVars, mediaVars, appVars>>

\* handleSave up to its await: an update when the draft carries an id, an
\* insert otherwise (the Save button is never disabled)
HandleSave ==
    /\ EditorShown
    /\ builder.seq < MaxRequests
    /\ requests' = requests \cup
          {IF builder.currentLessonId # NoId
           THEN Request("update", builder.currentLessonId, builder.result)
           ELSE Request("insert", NoId, builder.result)}
    /\ builder' = [builder EXCEPT !.seq = @ + 1]
    /\ UNCHANGED <<lessons, renderVars, liveVars, chatVars, browserVars, mediaVars, appVars>>

\* the insert is applied by the store and handleSave continues: the id of the
\* new row is adopted; on an error nothing is inserted and the error is shown
InsertReturn ==
    \E r \in requests : \E ok \in BOOLEAN :
        /\ r.kind = "insert"
        /\ requests' = requests \ {r}
        /\ lessons' = IF ok
                      THEN lessons \cup {[id |-> r.n, content |-> r.content, draft |-> r.draft]}
                      ELSE lessons
        /\ builder' = IF ok
                      THEN [builder EXCEPT !.currentLessonId = r.n, !.alert = "saved",
                                           !.unsaved = @ /\ r.content # builder.result]
                      ELSE [builder EXCEPT !.alert = "saveError"]
        /\ app' = IF ok THEN handleLessonSaved(app) ELSE app
        /\ UNCHANGED <<profile, renderVars, liveVars, chatVars, browserVars, mediaVars>>

\* new Date() at a save: later than every last_modified in the store
Now ==
    LET times == {0} \cup {row.lastModified :
                             row \in {x \in lessons : "lastModified" \in DOMAIN x}}
    IN  1 + CHOOSE t \in times : \A u \in times : u <= t

\* update({ content: result, last_modified: new Date().toISOString() }) on a
\* row (the rows a lesson session inserts are modelled without their dates)
Updated(row, content) ==
    IF "lastModified" \in DOMAIN row
    THEN [row EXCEPT !.content = content, !.lastModified = Now]
    ELSE [row EXCEPT !.content = content]

\* the update is applied to the rows with that id and handleSave continues
UpdateReturn ==
    \E r \in requests : \E ok \in BOOLEAN :
        /\ r.kind = "update"
        /\ requests' = requests \ {r}
        /\ lessons' = IF ok
                      THEN {IF row.id = r.id THEN Updated(row, r.content) ELSE row
                              : row \in lessons}
                      ELSE lessons
        /\ builder' = [builder EXCEPT
                         !.alert = IF ok THEN "saved" ELSE "saveError",
                         !.unsaved = @ /\ (~ok \/ r.content # builder.result)]
        /\ app' = IF ok THEN handleLessonSaved(app) ELSE app
        /\ UNCHANGED <<profile, renderVars, liveVars, chatVars, browserVars, mediaVars>>

\* improveLessonFormatting: the reformatted text, and the text it was given
\* on an empty response or, in its catch block, on a request that threw
Formatted(content) ==
    CASE content = "plan" -> "PLAN"
      [] content = "edited" -> "EDITED"
      [] OTHER -> content

improveLessonFormatting(currentContent, outcome) ==
    IF outcome = "text" THEN Formatted(currentContent) ELSE currentContent

\* handleFormat up to its await (the wand button, shown in edit mode and
\* disabled while formatting)
HandleFormat ==
    /\ EditorShown
    /\ builder.viewMode = "edit"
    /\ ~builder.formatting
    /\ builder.seq < MaxRequests
    /\ requests' = requests \cup {Request("format", NoId, builder.result)}
    /\ builder' = [builder EXCEPT !.formatting = TRUE, !.seq = @ + 1]
    /\ UNCHANGED <<lessons, renderVars, liveVars, chatVars, browserVars, mediaVars, appVars>>

\* handleFormat after its await
FormatReturn ==
    \E r \in requests : \E outcome \in {"text", "empty", "error"} :
        /\ r.kind = "format"
        /\ requests' = requests \ {r}
        /\ builder' = [builder EXCEPT
                         !.result = improveLessonFormatting(r.content, outcome),
                         !.viewMode = "preview", !.formatting = FALSE,
                         !.unsaved = TRUE]
        /\ UNCHANGED <<lessons, renderVars, liveVars, chatVars, browserVars, mediaVars, appVars>>

\* the textarea of the edit view: onChange={(e) => setResult(e.target.value)}
EditContent ==
    \E c \in Contents :
        /\ EditorShown
        /\ builder.viewMode = "edit"
        /\ c # builder.result
        /\ builder' = [builder EXCEPT !.result = c, !.unsaved = TRUE]
        /\ UNCHANGED <<lessons, requests, renderVars, liveVars, chatVars, browserVars, mediaVars, appVars>>

\* the Apercu / Modifier buttons
SetViewMode ==
    \E m \in {"preview", "edit"} :
        /\ EditorShown
        /\ m # builder.viewMode
        /\ builder' = [builder EXCEPT !.viewMode = m]
        /\ UNCHANGED <<lessons, requests, renderVars, liveVars, chatVars, browserVars, mediaVars, appVars>>

\* resetEditor (the back arrow of the editor)
ResetEditor ==
    /\ EditorShown
    /\ builder' = [builder EXCEPT !.isEditing = FALSE, !.result = Null,
                                  !.currentLessonId = NoId, !.unsaved = FALSE]
    /\ app' = handleClearSelection(app)
    /\ UNCHANGED <<profile, lessons, requests, renderVars, liveVars, chatVars, browserVars, mediaVars>>

-----------------------------------------------------------------------------
(* Live Voice session (LiveTutor).  Each startSession opens a session of    *)
(* its own, whose callbacks close over the refs of the component.  Time is  *)
(* the currentTime of the output audio context, in whole units.             *)

MaxSessions == 2
MaxChunks == 2
MaxTime == 2
MaxDuration == 2
MaxSignals == 1

NoSession == 0

LiveInit ==
    /\ live = [status |-> "idle", isConnected |-> FALSE,
               inputAudioContext |-> FALSE, outputAudioContext |-> FALSE,
               mediaStream |-> FALSE, processor |-> FALSE, source |-> FALSE,
               nextStartTime |-> 0, session |-> NoSession]
    /\ sessions = [n \in 1..MaxSessions |-> "unused"]
    /\ audio = [now |-> 0, decoding |-> {}, scheduled |-> {}, received |-> 0,
                signals |-> 0, interrupts |-> 0,
                signalled |-> FALSE]  \* an interruption signal came after the last chunk

\* stopAudio: every ref that is set is released and cleared
stopAudio(l) ==
    [l EXCEPT !.processor = FALSE, !.source = FALSE, !.mediaStream = FALSE,
              !.inputAudioContext = FALSE, !.outputAudioContext = FALSE]

\* startSession up to its await of getUserMedia (the button is shown when not
\* connected and is disabled while connecting)
StartSession ==
    \E n \in 1..MaxSessions :
        /\ ~live.isConnected
        /\ live.status # "connecting"
        /\ sessions[n] = "unused"
        /\ \A m \in 1..(n - 1) : sessions[m] # "unused"
        /\ live' = [live EXCEPT !.status = "connecting", !.inputAudioContext = TRUE,
                                !.outputAudioContext = TRUE]
        /\ sessions' = [sessions EXCEPT ![n] = "microphone"]
        /\ audio' = [audio EXCEPT !.now = 0]
        /\ UNCHANGED <<renderVars, builderVars, chatVars, browserVars, mediaVars, appVars>>

\* getUserMedia resolves: the stream is kept and the session is opened
MicrophoneGranted ==
    \E n \in 1..MaxSessions :
        /\ sessions[n] = "microphone"
        /\ live' = [live EXCEPT !.mediaStream = TRUE, !.session = n]
        /\ sessions' = [sessions EXCEPT ![n] = "connecting"]
        /\ UNCHANGED <<audio, renderVars, builderVars, chatVars, browserVars, mediaVars, appVars>>

\* getUserMedia rejects: the catch block of startSession
MicrophoneDenied ==
    \E n \in 1..MaxSessions :
        /\ sessions[n] = "microphone"
        /\ live' = [stopAudio(live) EXCEPT !.status = "error"]
        /\ sessions' = [sessions EXCEPT ![n] = "failed"]
        /\ UNCHANGED <<audio, renderVars, builderVars, chatVars, browserVars, mediaVars, appVars>>

\* callbacks.onopen
OnOpen ==
    \E n \in 1..MaxSessions :
        /\ sessions[n] = "connecting"
        /\ live' = [live EXCEPT !.status = "connected", !.isConnected = TRUE,
                                !.source = live.inputAudioContext,
                                !.processor = live.inputAudioContext]
        /\ sessions' = [sessions EXCEPT ![n] = "open"]
        /\ UNCHANGED <<audio, renderVars, builderVars, chatVars, browserVars, mediaVars, appVars>>

\* callbacks.onmessage up to its await of decodeAudioData, or to its end when
\* the message carries no audio.  d = 0: no audio part.  The messages with
\* audio and the messages with an interruption signal only are counted apart.
OnMessage ==
    \E n \in 1..MaxSessions : \E d \in 0..MaxDuration : \E interrupted \in BOOLEAN :
        /\ sessions[n] \in {"open", "closing"}
        /\ d > 0 \/ interrupted
        /\ IF d > 0 THEN audio.received < MaxChunks ELSE audio.signals < MaxSignals
        /\ IF d > 0 /\ live.outputAudioContext
           THEN /\ live' = [live EXCEPT
                              !.nextStartTime = Max(live.nextStartTime, audio.now)]
                /\ audio' = [audio EXCEPT
                              !.received = @ + 1,
                              !.interrupts = @ + (IF interrupted THEN 1 ELSE 0),
                              !.signalled = interrupted,
                              !.decoding = @ \cup {[c |-> audio.received + 1, s |-> n,
                                                    d |-> d, interrupted |-> interrupted,
                                                    after |-> audio.signalled]}]
           ELSE /\ live' = [live EXCEPT
                              !.nextStartTime = IF interrupted THEN 0 ELSE @]
                /\ audio' = [audio EXCEPT
                              !.received = @ + (IF d > 0 THEN 1 ELSE 0),
                              !.signals = @ + (IF d > 0 THEN 0 ELSE 1),
                              !.signalled = @ \/ interrupted,
                              !.interrupts = @ + (IF interrupted THEN 1 ELSE 0)]
        /\ UNCHANGED <<sessions, renderVars, builderVars, chatVars, browserVars, mediaVars, appVars>>

\* callbacks.onmessage after its await: the decoded buffer is started at
\* nextStartTime, which then advances by its duration; then the interruption
\* flag of the same message is handled
DecodeDone ==
    \E c \in audio.decoding :
        /\ audio' = [audio EXCEPT
                       !.decoding = @ \ {c},
                       !.scheduled = @ \cup {[c |-> c.c, s |-> c.s, d |-> c.d,
                                              start |-> live.nextStartTime,
                                              at |-> audio.now, after |-> c.after]}]
        /\ live' = [live EXCEPT
                      !.nextStartTime = IF c.interrupted THEN 0 ELSE @ + c.d]
        /\ UNCHANGED <<sessions, renderVars, builderVars, chatVars, browserVars, mediaVars, appVars>>

\* callbacks.onclose
OnClose ==
    \E n \in 1..MaxSessions :
        /\ sessions[n] \in {"connecting", "open", "closing"}
        /\ live' = [stopAudio(live) EXCEPT !.isConnected = FALSE, !.status = "idle"]
        /\ sessions' = [sessions EXCEPT ![n] = "closed"]
        /\ UNCHANGED <<audio, renderVars, builderVars, chatVars, browserVars, mediaVars, appVars>>

\* callbacks.onerror
OnError ==
    \E n \in 1..MaxSessions :
        /\ sessions[n] \in {"connecting", "open"}
        /\ live' = [stopAudio(live) EXCEPT !.status = "error"]
        /\ sessions' = [sessions EXCEPT ![n] = "closing"]
        /\ UNCHANGED <<audio, renderVars, builderVars, chatVars, browserVars, mediaVars, appVars>>

\* disconnect (the button shown while connected): the session of sessionRef
\* is asked to close, its onclose arrives later
Disconnect ==
    /\ live.isConnected
    /\ live' = [stopAudio(live) EXCEPT !.isConnected = FALSE, !.status = "idle"]
    /\ sessions' = IF live.session # NoSession /\ sessions[live.session] \in {"connecting", "open"}
                   THEN [sessions EXCEPT ![live.session] = "closing"]
                   ELSE sessions
    /\ UNCHANGED <<audio, renderVars, builderVars, chatVars, browserVars, mediaVars, appVars>>

\* ---- the voice tab of App ----

MaxSwitches == 2

\* {activeTab === Tab.LIVE && <LiveTutor />}
VoiceTabShown == app.activeTab = "live"

\* the Demarrer button, rendered while the tab is shown
VoiceStart == VoiceTabShown /\ StartSession

\* the Terminer button, rendered while the tab is shown
VoiceDisconnect == VoiceTabShown /\ Disconnect

\* setActiveTab(Tab.GENERATOR) on the voice tab: LiveTutor is unmounted (it
\* registers no effect, so nothing of it runs) and LessonBuilder is mounted
LeaveVoiceTab ==
    /\ VoiceTabShown
    /\ app.switches < MaxSwitches
    /\ app' = [app EXCEPT !.activeTab = "generator", !.switches = @ + 1]
    /\ builder' = MountLessonBuilder(builder, app.lessonToEdit)
    /\ UNCHANGED <<profile, lessons, requests, renderVars, liveVars, chatVars, browserVars, mediaVars>>

\* the clock of the output audio context advances
Tick ==
    /\ live.outputAudioContext
    /\ audio.now < MaxTime
    /\ audio' = [audio EXCEPT !.now = @ + 1]
    /\ UNCHANGED <<live, sessions, renderVars, builderVars, chatVars, browserVars, mediaVars, appVars>>

-----------------------------------------------------------------------------
(* Research chat (KnowledgeBase).  A message is [id, role, text,           *)
(* attachment]; a turn of the contents sent to the model is [role, text,   *)
(* attachment].  Date.now() is the clock chat.now, which advances while a  *)
(* call is awaited.                                                        *)

MaxSends == 3

WelcomeId == 1
WelcomeText == "Bonjour ! Je suis votre assistant de recherche pedagogique."
NoAnswerText == "Pas de reponse."
SearchErrorText == "Desole, une erreur est survenue lors de la recherche."

\* what the user can have typed: a question, or nothing (with a file attached)
Questions == {"q1", ""}
\* what a call to the model can do: throw, or return a response whose first
\* part has a text or none
Threw == "threw"
Pending == "pending"
Responses == {"r1", ""}

Message(id, role, text, attachment) ==
    [id |-> id, role |-> role, text |-> text, attachment |-> attachment]

Turn(role, text, attachment) ==
    [role |-> role, text |-> text, attachment |-> attachment]

ChatInit ==
    chat = [messages |-> <<Message(WelcomeId, "model", WelcomeText, FALSE)>>,
            loading |-> FALSE,
            now |-> WelcomeId + 1,
            sends |-> 0,      \* sends made so far
            calls |-> <<>>]   \* every generateContent call made, in order

MapTurns(ms) == [i \in 1..Len(ms) |-> Turn(ms[i].role, ms[i].text, FALSE)]

IsNotWelcome(m) == m.id # WelcomeId

\* the history without its filter
HistoryUnfiltered(messages) == MapTurns(messages)

\* handleSend: messages.filter(m => m.id !== '1').map(m => ({role, parts: [{text}]}))
HistoryOf(messages) == MapTurns(SelectSeq(messages, IsNotWelcome))

\* chatWithSearch: contents = [...history, { role: 'user', parts: userParts }]
ContentsOf(history, message, attachment) ==
    Append(history, Turn("user", message, attachment))

Call(send, attempt, tool, contents) ==
    [send |-> send, attempt |-> attempt, tool |-> tool, contents |-> contents,
     outcome |-> Pending]

\* a fallback that asks for the search tool again
FallbackCallWithSearch(first) == Call(first.send, 2, TRUE, first.contents)

\* chatWithSearch, attempt 2: the same contents, no tools
FallbackCall(first) == Call(first.send, 2, FALSE, first.contents)

\* response.candidates?.[0]?.content?.parts?.[0]?.text || "Pas de reponse."
AnswerText(response) == IF response = "" THEN NoAnswerText ELSE response

PendingCall == chat.calls[Len(chat.calls)]

\* handleSend up to the first await of chatWithSearch (the form does nothing
\* while loading or when there is neither text nor file)
HandleSend ==
    \E input \in Questions : \E selectedFile \in BOOLEAN :
        /\ ~((input = "" /\ ~selectedFile) \/ chat.loading)
        /\ chat.sends < MaxSends
        /\ LET userMessage == Message(chat.now, "user", input, selectedFile)
               history == HistoryOf(chat.messages)
               contents == ContentsOf(history, userMessage.text, selectedFile)
           IN  chat' = [chat EXCEPT
                          !.messages = Append(@, userMessage),
                          !.loading = TRUE,
                          !.sends = @ + 1,
                          !.calls = Append(@, Call(chat.sends + 1, 1, TRUE, contents))]
        /\ UNCHANGED <<renderVars, builderVars, liveVars, browserVars, mediaVars, appVars>>

\* the reply of handleSend to a response, and its finally block
BotReply(c, response) ==
    [c EXCEPT !.messages = Append(@, Message(c.now + 2, "model", AnswerText(response), FALSE)),
              !.loading = FALSE,
              !.now = @ + 1]

\* the catch block of handleSend, and its finally block
ErrorReply(c) ==
    [c EXCEPT !.messages = Append(@, Message(c.now + 1, "model", SearchErrorText, FALSE)),
              !.loading = FALSE,
              !.now = @ + 1]

\* the search-grounded call returns or throws: chatWithSearch returns the
\* response to handleSend, or makes its fallback call
SearchReturn ==
    \E outcome \in Responses \cup {Threw} :
        /\ chat.calls # <<>>
        /\ PendingCall.outcome = Pending
        /\ PendingCall.attempt = 1
        /\ LET done == [chat EXCEPT !.calls[Len(chat.calls)].outcome = outcome]
           IN  chat' = IF outcome = Threw
                       THEN [done EXCEPT !.calls = Append(@, FallbackCall(PendingCall))]
                       ELSE BotReply(done, outcome)
        /\ UNCHANGED <<renderVars, builderVars, liveVars, browserVars, mediaVars, appVars>>

\* the fallback call returns or throws: chatWithSearch returns the response
\* or rethrows to handleSend
FallbackReturn ==
    \E outcome \in Responses \cup {Threw} :
        /\ chat.calls # <<>>
        /\ PendingCall.outcome = Pending
        /\ PendingCall.attempt = 2
        /\ LET done == [chat EXCEPT !.calls[Len(chat.calls)].outcome = outcome]
           IN  chat' = IF outcome = Threw THEN ErrorReply(done) ELSE BotReply(done, outcome)
        /\ UNCHANGED <<renderVars, builderVars, liveVars, browserVars, mediaVars, appVars>>

-----------------------------------------------------------------------------
(* Lesson Builder: PDF export and read-aloud.  App renders the builder     *)
(* only on the generator tab, so leaving the tab and coming back replaces  *)
(* the component instance: its state starts afresh, while the timers,      *)
(* requests and playbacks of the earlier instance go on, and their state   *)
(* updates are lost.                                                       *)

MaxExports == 2
MaxReads == 2
MaxMounts == 2

MediaInit ==
    media = [downloadingPdf |-> FALSE, audioPlaying |-> FALSE,
             instance |-> 1,     \* the mounted LessonBuilder instance
             exports |-> 0,      \* PDF exports started so far
             timers |-> {},      \* setTimeout(() => generatePdf(), 100) pending
             jobs |-> {},        \* html2pdf save() promises pending
             captures |-> {},    \* elements handed to html2pdf
             reads |-> 0,        \* read-aloud requests issued so far
             speech |-> {},      \* read-alouds awaiting generateSpeech or decodeAudioData
             playing |-> {}]     \* buffer sources started and not ended

Mounted(inst) == inst = media.instance

\* the element the content container holds, whatever the view
ContentRefElement(b) ==
    IF b.result # Null /\ b.isEditing
    THEN (IF b.viewMode = "preview" THEN "preview" ELSE "editor")
    ELSE "none"

\* document.getElementById('lesson-content'): the id is set on the root of
\* MarkdownPreview, which is rendered in the editor in preview mode only
LessonContentElement(b) ==
    IF b.result # Null /\ b.isEditing /\ b.viewMode = "preview" THEN "preview" ELSE "none"

\* generatePdf, called by instance inst for export n requested in view from
generatePdf(m, b, n, inst, from) ==
    LET element == LessonContentElement(b)
    IN  IF element = "none"
        THEN [m EXCEPT !.downloadingPdf = IF Mounted(inst) THEN FALSE ELSE @]
        ELSE [m EXCEPT !.captures = @ \cup {[n |-> n, element |-> element,
                                              viewMode |-> b.viewMode, from |-> from]},
                       !.jobs = @ \cup {[n |-> n, inst |-> inst]}]

\* handleExportPDF (the button is disabled while downloadingPdf)
HandleExportPDF ==
    \E html2pdf \in BOOLEAN :
        /\ EditorShown
        /\ ~media.downloadingPdf
        /\ media.exports < MaxExports
        /\ LET n == media.exports + 1
               started == [media EXCEPT !.downloadingPdf = TRUE, !.exports = n]
           IN  IF ~html2pdf
               THEN /\ builder' = [builder EXCEPT !.alert = "pdfNotLoaded"]
                    /\ media' = [media EXCEPT !.exports = n]
               ELSE IF builder.viewMode = "edit"
               THEN /\ builder' = [builder EXCEPT !.viewMode = "preview"]
                    /\ media' = [started EXCEPT
                                   !.timers = @ \cup {[n |-> n, inst |-> media.instance]}]
               ELSE /\ builder' = builder
                    /\ media' = generatePdf(started, builder, n, media.instance, "preview")
        /\ UNCHANGED <<lessons, requests, renderVars, liveVars, chatVars, browserVars, appVars>>

\* the timer of handleExportPDF fires: generatePdf
GeneratePdfTimer ==
    \E t \in media.timers :
        /\ media' = generatePdf([media EXCEPT !.timers = @ \ {t}], builder, t.n, t.inst, "edit")
        /\ UNCHANGED <<builderVars, renderVars, liveVars, chatVars, browserVars, appVars>>

\* html2pdf().set(opt).from(element).save() resolves
PdfSaved ==
    \E j \in media.jobs :
        /\ media' = [media EXCEPT !.jobs = @ \ {j},
                                  !.downloadingPdf = IF Mounted(j.inst) THEN FALSE ELSE @]
        /\ UNCHANGED <<builderVars, renderVars, liveVars, chatVars, browserVars, appVars>>

\* handleReadAloud up to its await of generateSpeech (the button is disabled
\* while audioPlaying)
HandleReadAloud ==
    /\ EditorShown
    /\ ~media.audioPlaying
    /\ media.reads < MaxReads
    /\ media' = [media EXCEPT
                   !.audioPlaying = TRUE,
                   !.reads = @ + 1,
                   !.speech = @ \cup {[n |-> media.reads + 1, inst |-> media.instance,
                                       stage |-> "generateSpeech"]}]
    /\ UNCHANGED <<builderVars, renderVars, liveVars, chatVars, browserVars, appVars>>

\* generateSpeech resolves, with audio data or with null (no audio in the
\* response, or a request that failed)
SpeechReturn ==
    \E r \in media.speech : \E audioDataBuffer \in BOOLEAN :
        /\ r.stage = "generateSpeech"
        /\ media' = IF audioDataBuffer
                    THEN [media EXCEPT
                            !.speech = (@ \ {r}) \cup {[r EXCEPT !.stage = "decodeAudioData"]}]
                    ELSE [media EXCEPT
                            !.speech = @ \ {r},
                            !.audioPlaying = IF Mounted(r.inst) THEN FALSE ELSE @]
        /\ UNCHANGED <<builderVars, renderVars, liveVars, chatVars, browserVars, appVars>>

\* decodeAudioData resolves and the buffer source is started, or it rejects
DecodeReturn ==
    \E r \in media.speech : \E decoded \in BOOLEAN :
        /\ r.stage = "decodeAudioData"
        /\ media' = IF decoded
                    THEN [media EXCEPT
                            !.speech = @ \ {r},
                            !.playing = @ \cup {[n |-> r.n, inst |-> r.inst]}]
                    ELSE [media EXCEPT
                            !.speech = @ \ {r},
                            !.audioPlaying = IF Mounted(r.inst) THEN FALSE ELSE @]
        /\ UNCHANGED <<builderVars, renderVars, liveVars, chatVars, browserVars, appVars>>

\* source.onended
PlaybackEnded ==
    \E p \in media.playing :
        /\ media' = [media EXCEPT
                       !.playing = @ \ {p},
                       !.audioPlaying = IF Mounted(p.inst) THEN FALSE ELSE @]
        /\ UNCHANGED <<builderVars, renderVars, liveVars, chatVars, browserVars, appVars>>

\* the user leaves the generator tab and comes back (no lesson selected):
\* a new LessonBuilder instance is mounted; the generation awaited by the
\* earlier instance can only update the state of that instance
Remount ==
    /\ media.instance < MaxMounts
    /\ \A r \in requests : r.kind = "generate"
    /\ requests' = {}
    /\ builder' = [builder EXCEPT !.loading = FALSE, !.result = Null, !.isEditing = FALSE,
                                  !.viewMode = "preview", !.currentLessonId = NoId,
                                  !.formatting = FALSE, !.unsaved = FALSE]
    /\ media' = [media EXCEPT !.instance = @ + 1, !.downloadingPdf = FALSE,
                              !.audioPlaying = FALSE]
    /\ UNCHANGED <<lessons, renderVars, liveVars, chatVars, browserVars, appVars>>

-----------------------------------------------------------------------------
(* Saved Lessons Browser (SavedLessons).  The store rows are                *)
(* [id, subject, level, grade, lastModified, content]; a summary is a row   *)
(* without its content.  A subject is a sequence of letters.                *)

MaxOps == 3

All == "ALL"

SubjectList == << <<"b">>, <<"A", "b">> >>
LevelList == <<"Primaire", "College">>
GradeList == <<"CP", "6e">>
ModifiedList == <<2, 1>>

\* the row of the store with id i
Row(i) ==
    [id |-> i, subject |-> SubjectList[i], level |-> LevelList[i],
     grade |-> GradeList[i], lastModified |-> ModifiedList[i], content |-> "plan"]

\* the rows the store can hold when the tab is shown
StoreRows == {Row(i) : i \in 1..Len(SubjectList)}

\* what the user can type in the search box
Queries == {<<>>, <<"a">>}

\* LEVEL_ORDER
LEVEL_ORDER == <<"Primaire", "College", "Lycee">>

SortOrders == {"DATE_DESC", "DATE_ASC", "ALPHA"}

Summary(row) ==
    [id |-> row.id, subject |-> row.subject, level |-> row.level, grade |-> row.grade,
     lastModified |-> row.lastModified]

BrowserState(mounted) ==
    [mounted |-> mounted,
     lessons |-> <<>>, loading |-> TRUE, loadingLessonId |-> NoId,
     searchQuery |-> <<>>, selectedLevel |-> All, selectedGrade |-> All,
     sortOrder |-> "DATE_DESC",
     alert |-> "none",       \* the last alert() shown
     edits |-> <<>>,         \* the calls of onEdit: record id and summary id
     deletes |-> {},         \* the confirmed deletes and their outcome
     refetched |-> {},       \* ids deleted here and then covered by a list fetch
     dialogs |-> 0,          \* confirm() dialogs answered
     ops |-> 0,              \* user actions and refreshes so far
     seq |-> 0,              \* requests issued so far
     presses |-> 0,          \* presses of the sort button, counted up to 2
     selected |-> {"DATE_DESC"},  \* sort orders selected so far
     lastList |-> 0,         \* the list fetch issued last, by request number
     listed |-> 0,           \* the list fetch whose rows are in lessons
     listError |-> FALSE]    \* some list fetch has failed

\* not on the saved-lessons tab
BrowserIdle == browser = BrowserState(FALSE)

\* ---- strings ----

ToLower(ch) == CASE ch = "A" -> "a" [] ch = "B" -> "b" [] OTHER -> ch

toLowerCase(s) == [i \in 1..Len(s) |-> ToLower(s[i])]

\* String.prototype.includes
includes(s, q) ==
    \E k \in 0..(Len(s) - Len(q)) : \A i \in 1..Len(q) : s[k + i] = q[i]

\* collation of localeCompare: letters first, case breaks ties (lower first)
LetterRank(ch) == CASE ToLower(ch) = "a" -> 1 [] ToLower(ch) = "b" -> 2 [] OTHER -> 3
CaseRank(ch) == IF ToLower(ch) = ch THEN 0 ELSE 1

RECURSIVE LexCompare(_, _)
LexCompare(x, y) ==
    IF x = <<>> /\ y = <<>> THEN 0
    ELSE IF x = <<>> THEN -1
    ELSE IF y = <<>> THEN 1
    ELSE IF Head(x) < Head(y) THEN -1
    ELSE IF Head(x) > Head(y) THEN 1
    ELSE LexCompare(Tail(x), Tail(y))

localeCompare(s, t) ==
    LET primary == LexCompare([i \in 1..Len(s) |-> LetterRank(s[i])],
                              [i \in 1..Len(t) |-> LetterRank(t[i])])
    IN  IF primary # 0 THEN primary
        ELSE LexCompare([i \in 1..Len(s) |-> CaseRank(s[i])],
                        [i \in 1..Len(t) |-> CaseRank(t[i])])

\* ---- derived state ----

\* the comparator of filteredLessons
CompareLessons(a, b, sortOrder) ==
    CASE sortOrder = "DATE_DESC" -> b.lastModified - a.lastModified
      [] sortOrder = "DATE_ASC" -> a.lastModified - b.lastModified
      [] sortOrder = "ALPHA" -> localeCompare(a.subject, b.subject)
      [] OTHER -> 0

\* Array.prototype.sort (stable): insertion of x after the elements it does
\* not precede
RECURSIVE InsertSorted(_, _, _)
InsertSorted(x, s, sortOrder) ==
    IF s = <<>> THEN <<x>>
    ELSE IF CompareLessons(x, Head(s), sortOrder) < 0 THEN <<x>> \o s
    ELSE <<Head(s)>> \o InsertSorted(x, Tail(s), sortOrder)

RECURSIVE SortLessons(_, _)
SortLessons(s, sortOrder) ==
    IF s = <<>> THEN <<>>
    ELSE InsertSorted(s[Len(s)], SortLessons(SubSeq(s, 1, Len(s) - 1), sortOrder), sortOrder)

\* a filter that keeps a lesson when any one of the three tests passes
MatchesAny(l, searchQuery, selectedLevel, selectedGrade) ==
    \/ includes(toLowerCase(l.subject), toLowerCase(searchQuery))
    \/ selectedLevel = All \/ l.level = selectedLevel
    \/ selectedGrade = All \/ l.grade = selectedGrade

\* the predicate of lessons.filter in filteredLessons
Matches(l, searchQuery, selectedLevel, selectedGrade) ==
    LET matchesSearch == includes(toLowerCase(l.subject), toLowerCase(searchQuery))
        matchesLevel == selectedLevel = All \/ l.level = selectedLevel
        matchesGrade == selectedGrade = All \/ l.grade = selectedGrade
    IN  matchesSearch /\ matchesLevel /\ matchesGrade

filteredLessons(b) ==
    SortLessons(SelectSeq(b.lessons,
                          LAMBDA l : Matches(l, b.searchQuery, b.selectedLevel, b.selectedGrade)),
                b.sortOrder)

\* groupedLessons: null when a level is selected, else one list per level of
\* LEVEL_ORDER, in the order of filteredLessons; only non-empty groups are
\* rendered
groupedLessons(b) ==
    [k \in 1..Len(LEVEL_ORDER) |->
        SelectSeq(filteredLessons(b), LAMBDA l : l.level = LEVEL_ORDER[k])]

availableLevels(b) == {b.lessons[i].level : i \in 1..Len(b.lessons)}

availableGrades(b) ==
    {b.lessons[i].grade : i \in {j \in 1..Len(b.lessons) :
                                    b.selectedLevel = All \/ b.lessons[j].level = b.selectedLevel}}

\* what the component renders
View(b) ==
    IF ~b.mounted THEN "none"
    ELSE IF b.loading THEN "spinner"
    ELSE IF Len(b.lessons) = 0 THEN "emptyLibrary"
    ELSE "list"

\* the "Aucun resultat ne correspond a vos filtres." panel
NoResultsShown(b) == View(b) = "list" /\ Len(filteredLessons(b)) = 0

\* the lists of cards rendered, from top to bottom
DisplayedLists(b) ==
    IF View(b) # "list" THEN <<>>
    ELSE IF b.selectedLevel = All
    THEN SelectSeq(groupedLessons(b), LAMBDA g : g # <<>>)
    ELSE <<filteredLessons(b)>>

RECURSIVE Flatten(_)
Flatten(ss) == IF ss = <<>> THEN <<>> ELSE Head(ss) \o Flatten(Tail(ss))

\* the cards rendered
Cards(b) == Flatten(DisplayedLists(b))

CardIds(b) == {Cards(b)[i].id : i \in 1..Len(Cards(b))}

\* the cards that show the spinner instead of "Ouvrir"
LoadingCards(b) == {id \in CardIds(b) : b.loadingLessonId = id}

BrowserRequest(kind, id) == [kind |-> kind, n |-> browser.seq + 1, id |-> id]

\* ---- the summary list ----

\* the rows of a select ordered by last_modified descending; the order of
\* rows modified at the same time is up to the store
OrderedSelect(rows) ==
    {s \in [1..Cardinality(rows) -> rows] :
        /\ \A i, j \in 1..Cardinality(rows) : i # j => s[i] # s[j]
        /\ \A i \in 1..(Cardinality(rows) - 1) : s[i].lastModified >= s[i + 1].lastModified}

\* refreshTrigger changes while the browser is shown (a save of the Lesson
\* Builder that completes after the user left the generator tab): the effect
\* runs loadLessons again
Refresh ==
    /\ browser.mounted
    /\ browser.ops < MaxOps
    /\ browser' = [browser EXCEPT !.loading = TRUE, !.ops = @ + 1, !.seq = @ + 1,
                                  !.lastList = browser.seq + 1]
    /\ requests' = requests \cup {BrowserRequest("list", NoId)}
    /\ app' = handleLessonSaved(app)
    /\ UNCHANGED <<profile, builder, lessons, renderVars, liveVars, chatVars, mediaVars>>

\* loadLessons after its await
ListReturn ==
    \E r \in requests : \E ok \in BOOLEAN : \E data \in OrderedSelect(lessons) :
        /\ r.kind = "list"
        /\ requests' = requests \ {r}
        /\ browser' =
             IF ~browser.mounted THEN browser
             ELSE IF ~ok THEN [browser EXCEPT !.loading = FALSE, !.listError = TRUE]
             ELSE [browser EXCEPT
                     !.loading = FALSE,
                     !.lessons = [i \in 1..Len(data) |-> Summary(data[i])],
                     !.listed = r.n,
                     !.refetched = @ \cup {d.id : d \in browser.deletes}]
        /\ UNCHANGED <<builder, lessons, renderVars, liveVars, chatVars, mediaVars, appVars>>

\* ---- opening a lesson ----

\* handleOpenLesson up to its await (a click on a card)
HandleOpenLesson ==
    \E id \in CardIds(browser) :
        /\ browser.ops < MaxOps
        /\ browser' = [browser EXCEPT !.loadingLessonId = id, !.ops = @ + 1,
                                      !.seq = @ + 1]
        /\ requests' = requests \cup {BrowserRequest("full", id)}
        /\ UNCHANGED <<builder, lessons, renderVars, liveVars, chatVars, mediaVars, appVars>>

\* handleOpenLesson after its await: the row with that id, or an error when
\* the request fails or no row has that id; onEdit is handleEditLesson of
\* App, which keeps the row and shows the generator tab: the browser is
\* unmounted and a LessonBuilder is mounted with the row, or, when the
\* generator tab is shown already, the effect of the LessonBuilder shown
\* runs on the new row
FullReturn ==
    \E r \in requests : \E ok \in BOOLEAN :
        /\ r.kind = "full"
        /\ requests' = requests \ {r}
        /\ LET found == {row \in lessons : row.id = r.id}
               finally == IF browser.mounted
                          THEN [browser EXCEPT !.loadingLessonId = NoId]
                          ELSE browser
           IN  IF ok /\ found # {}
               THEN LET data == CHOOSE row \in found : TRUE
                    IN  /\ browser' = [finally EXCEPT
                                         !.edits = Append(@, [id |-> data.id, summary |-> r.id,
                                                              n |-> r.n]),
                                         !.mounted = FALSE]
                        /\ app' = handleEditLesson(app, data)
                        /\ builder' = IF app.activeTab = "generator"
                                      THEN InitialLessonEffect(builder, <<data>>)
                                      ELSE MountLessonBuilder(builder, <<data>>)
               ELSE /\ browser' = [finally EXCEPT !.alert = "openError"]
                    /\ UNCHANGED <<app, builder>>
        /\ UNCHANGED <<profile, lessons, renderVars, liveVars, chatVars, mediaVars>>

\* ---- deleting a lesson ----

\* setLessons(prev => prev.filter(l => l.id !== id))
RemoveLocal(list, id) == SelectSeq(list, LAMBDA l : l.id # id)

\* handleDelete up to its await (the bin of a card, then confirm())
HandleDelete ==
    \E id \in CardIds(browser) : \E confirmed \in BOOLEAN :
        /\ browser.ops < MaxOps
        /\ IF confirmed
           THEN /\ browser' = [browser EXCEPT
                                 !.lessons = RemoveLocal(@, id),
                                 !.dialogs = @ + 1, !.ops = @ + 1, !.seq = @ + 1,
                                 !.deletes = @ \cup {[n |-> browser.seq + 1, id |-> id,
                                                      state |-> "pending"]}]
                /\ requests' = requests \cup {BrowserRequest("delete", id)}
           ELSE /\ browser' = [browser EXCEPT !.dialogs = @ + 1, !.ops = @ + 1]
                /\ requests' = requests
        /\ UNCHANGED <<builder, lessons, renderVars, liveVars, chatVars, mediaVars, appVars>>

\* handleDelete after its await
DeleteReturn ==
    \E r \in requests : \E ok \in BOOLEAN :
        /\ r.kind = "delete"
        /\ requests' = requests \ {r}
        /\ lessons' = IF ok THEN {row \in lessons : row.id # r.id} ELSE lessons
        /\ browser' = [browser EXCEPT
                         !.alert = IF ok THEN @ ELSE "deleteError",
                         !.deletes = {IF d.n = r.n
                                      THEN [d EXCEPT !.state = IF ok THEN "done" ELSE "failed"]
                                      ELSE d : d \in @}]
        /\ UNCHANGED <<builder, renderVars, liveVars, chatVars, mediaVars, appVars>>

\* ---- the toolbar (rendered with the list) ----

SetSearchQuery ==
    \E q \in Queries :
        /\ View(browser) = "list"
        /\ q # browser.searchQuery
        /\ browser.ops < MaxOps
        /\ browser' = [browser EXCEPT !.searchQuery = q, !.ops = @ + 1]
        /\ UNCHANGED <<builderVars, renderVars, liveVars, chatVars, mediaVars, appVars>>

\* the level select: "ALL" or one of availableLevels; the grade is reset
SelectLevel ==
    \E level \in {All} \cup availableLevels(browser) :
        /\ View(browser) = "list"
        /\ level # browser.selectedLevel
        /\ browser.ops < MaxOps
        /\ browser' = [browser EXCEPT !.selectedLevel = level, !.selectedGrade = All,
                                      !.ops = @ + 1]
        /\ UNCHANGED <<builderVars, renderVars, liveVars, chatVars, mediaVars, appVars>>

\* the grade select: "ALL" or one of availableGrades
SelectGrade ==
    \E grade \in {All} \cup availableGrades(browser) :
        /\ View(browser) = "list"
        /\ availableGrades(browser) # {}
        /\ grade # browser.selectedGrade
        /\ browser.ops < MaxOps
        /\ browser' = [browser EXCEPT !.selectedGrade = grade, !.ops = @ + 1]
        /\ UNCHANGED <<builderVars, renderVars, liveVars, chatVars, mediaVars, appVars>>

\* the order the sort button selects
NextSortOrder(prev) == IF prev = "DATE_DESC" THEN "ALPHA" ELSE "DATE_DESC"

\* the sort button
ToggleSort ==
    /\ View(browser) = "list"
    /\ browser.ops < MaxOps
    /\ browser' = [browser EXCEPT
                     !.sortOrder = NextSortOrder(@),
                     !.ops = @ + 1,
                     !.presses = IF @ < 2 THEN @ + 1 ELSE @,
                     !.selected = @ \cup {NextSortOrder(browser.sortOrder)}]
    /\ UNCHANGED <<builderVars, renderVars, liveVars, chatVars, mediaVars, appVars>>

\* the reset button, shown when a filter is set
ResetFilters ==
    /\ View(browser) = "list"
    /\ browser.selectedLevel # All \/ browser.selectedGrade # All \/ browser.searchQuery # <<>>
    /\ browser.ops < MaxOps
    /\ browser' = [browser EXCEPT !.selectedLevel = All, !.selectedGrade = All,
                                  !.searchQuery = <<>>, !.ops = @ + 1]
    /\ UNCHANGED <<builderVars, renderVars, liveVars, chatVars, mediaVars, appVars>>

-----------------------------------------------------------------------------
(* Settings (App and the profiles table).  A profiles row is               *)
(* [theme_color, theme_mode, teacher_name, teacher_phone]; a column can be *)
(* null.  The table holds no row or one row for the user.  The select of   *)
(* fetchProfile reads the table when the store serves it and its response  *)
(* arrives later; an upsert has no continuation in the code, so it ends    *)
(* when the store applies it.                                              *)

MaxUpdates == 3

\* what the controls of the settings panel pass to onUpdateSettings
Partials ==
    {<<"mode", "night">>, <<"mode", "sky">>, <<"color", "purple">>,
     <<"teacherName", "A">>}

\* what the table can hold for the user at login
StoredProfiles ==
    {{},
     {[theme_color |-> Null, theme_mode |-> Null, teacher_name |-> Null,
       teacher_phone |-> Null]},
     {[theme_color |-> "green", theme_mode |-> "night", teacher_name |-> "B",
       teacher_phone |-> ""]}}

\* x || fallback
OrElse(x, fallback) == IF x = Null \/ x = "" THEN fallback ELSE x

\* the settings fetchProfile makes of a row
SettingsOf(data) ==
    [color |-> OrElse(data.theme_color, "ocean"),
     mode |-> OrElse(data.theme_mode, "sky"),
     teacherName |-> OrElse(data.teacher_name, ""),
     teacherPhone |-> OrElse(data.teacher_phone, "")]

\* the columns handleUpdateSettings writes
RowOf(settings) ==
    [theme_color |-> settings.color, theme_mode |-> settings.mode,
     teacher_name |-> settings.teacherName, teacher_phone |-> settings.teacherPhone]

\* { ...themeSettings, ...newSettings }
Merge(settings, newSettings) == [settings EXCEPT ![newSettings[1]] = newSettings[2]]

\* the store serves the select of fetchProfile
ProfileServed ==
    \E r \in profile.requests :
        /\ r.kind = "fetch"
        /\ ~r.served
        /\ profile' = [profile EXCEPT
                         !.requests = (@ \ {r}) \cup
                                      {[r EXCEPT !.served = TRUE, !.rows = profile.rows]}]
        /\ UNCHANGED <<app, renderVars, builderVars, liveVars, chatVars, browserVars, mediaVars>>

\* fetchProfile after its await: if (data && !error) setThemeSettings(...);
\* single() gives no data when the user has no row
FetchProfileReturn ==
    \E r \in profile.requests : \E error \in BOOLEAN :
        /\ r.kind = "fetch"
        /\ r.served
        /\ profile' = [profile EXCEPT !.requests = @ \ {r}]
        /\ app' = IF r.rows # {} /\ ~error
                  THEN [app EXCEPT
                          !.themeSettings = SettingsOf(CHOOSE data \in r.rows : TRUE)]
                  ELSE app
        /\ UNCHANGED <<renderVars, builderVars, liveVars, chatVars, browserVars, mediaVars>>

\* handleUpdateSettings up to its await
HandleUpdateSettings ==
    \E newSettings \in Partials :
        /\ app.updates < MaxUpdates
        /\ LET updated == Merge(app.themeSettings, newSettings)
           IN  /\ app' = [app EXCEPT !.themeSettings = updated, !.intended = updated,
                                     !.updates = @ + 1]
               /\ profile' = [profile EXCEPT
                                !.requests = @ \cup {[kind |-> "upsert", n |-> app.updates + 1,
                                                      served |-> FALSE,
                                                      rows |-> {RowOf(updated)}]}]
        /\ UNCHANGED <<renderVars, builderVars, liveVars, chatVars, browserVars, mediaVars>>

\* the store applies an upsert, or fails it; the result is not looked at
UpsertApplied ==
    \E r \in profile.requests : \E ok \in BOOLEAN :
        /\ r.kind = "upsert"
        /\ profile' = [profile EXCEPT
                         !.requests = @ \ {r},
                         !.rows = IF ok THEN r.rows ELSE @,
                         !.failed = @ \/ ~ok]
        /\ UNCHANGED <<app, renderVars, builderVars, liveVars, chatVars, browserVars, mediaVars>>

-----------------------------------------------------------------------------
(* The tab bar of App.  The tab shown is the only one mounted: a click     *)
(* unmounts the component of the tab left and mounts a new instance of the *)
(* component of the tab entered.  The user changes tabs while no request   *)
(* of the tab left is pending.                                              *)

\* the state hooks of a new SavedLessons instance (the counters and logs of
\* the model are kept)
FreshBrowser(b) ==
    [b EXCEPT !.mounted = TRUE, !.lessons = <<>>, !.loading = TRUE,
              !.loadingLessonId = NoId, !.searchQuery = <<>>,
              !.selectedLevel = All, !.selectedGrade = All,
              !.sortOrder = "DATE_DESC"]

\* the "Mes Fiches" button: the LessonBuilder is unmounted, SavedLessons is
\* mounted and its effect runs loadLessons
ShowSavedTab ==
    /\ app.activeTab = "generator"
    /\ app.switches < MaxSwitches
    /\ requests = {}
    /\ app' = [app EXCEPT !.activeTab = "saved", !.switches = @ + 1]
    /\ builder' = FreshBuilder(builder)
    /\ browser' = [FreshBrowser(browser) EXCEPT !.seq = @ + 1,
                                                !.lastList = browser.seq + 1]
    /\ requests' = {BrowserRequest("list", NoId)}
    /\ UNCHANGED <<profile, lessons, renderVars, liveVars, chatVars, mediaVars>>

\* the generator button: SavedLessons is unmounted and a LessonBuilder is
\* mounted with the lessonToEdit that App holds
ShowGeneratorTab ==
    /\ app.activeTab = "saved"
    /\ app.switches < MaxSwitches
    /\ requests = {}
    /\ app' = [app EXCEPT !.activeTab = "generator", !.switches = @ + 1]
    /\ browser' = [browser EXCEPT !.mounted = FALSE]
    /\ builder' = MountLessonBuilder(builder, app.lessonToEdit)
    /\ UNCHANGED <<profile, lessons, requests, renderVars, liveVars, chatVars, mediaVars>>

\* a click on a card while no request is pending
OpenWhenQuiet == requests = {} /\ HandleOpenLesson

\* a click on Save while no request is pending
SaveWhenQuiet == requests = {} /\ HandleSave

-----------------------------------------------------------------------------
(* Specifications *)

InitRender ==
    /\ md \in Inputs
    /\ html = HtmlInit
    /\ preview = PreviewInit
    /\ BuilderInit
    /\ LiveInit
    /\ ChatInit
    /\ BrowserIdle
    /\ MediaInit
    /\ AppInit

NextRender == HtmlLine \/ HtmlEnd \/ PreviewLine \/ PreviewEnd

\* the renderer: both output modes applied to one input
SpecRender == InitRender /\ [][NextRender]_vars

InitIdle ==
    /\ md = <<>>
    /\ html = HtmlInit
    /\ preview = PreviewInit
    /\ BuilderInit
    /\ LiveInit
    /\ ChatInit
    /\ BrowserIdle
    /\ MediaInit
    /\ AppInit

NextBuilder ==
    \/ HandleSubmit
    \/ GenerateReturn
    \/ HandleSave
    \/ InsertReturn
    \/ UpdateReturn
    \/ EditContent
    \/ SetViewMode
    \/ ResetEditor

\* the Lesson Builder and the data store
SpecBuilder == InitIdle /\ [][NextBuilder]_vars

NextLive ==
    \/ StartSession
    \/ MicrophoneGranted
    \/ MicrophoneDenied
    \/ OnOpen
    \/ OnMessage
    \/ DecodeDone
    \/ OnClose
    \/ OnError
    \/ Disconnect
    \/ Tick

\* the Live Voice session
SpecLive == InitIdle /\ [][NextLive]_vars

NextExport ==
    \/ HandleSubmit
    \/ GenerateReturn
    \/ EditContent
    \/ SetViewMode
    \/ ResetEditor
    \/ HandleExportPDF
    \/ GeneratePdfTimer
    \/ PdfSaved
    \/ Remount

\* the editor of the Lesson Builder and its PDF export
SpecExport == InitIdle /\ [][NextExport]_vars

NextAloud ==
    \/ HandleSubmit
    \/ GenerateReturn
    \/ EditContent
    \/ SetViewMode
    \/ ResetEditor
    \/ HandleReadAloud
    \/ SpeechReturn
    \/ DecodeReturn
    \/ PlaybackEnded
    \/ Remount

\* the editor of the Lesson Builder and its read-aloud
SpecAloud == InitIdle /\ [][NextAloud]_vars

\* the saved-lessons tab has just been shown to a signed-in user: the store
\* holds some rows and the first loadLessons is awaiting its select
InitBrowser ==
    /\ md = <<>>
    /\ html = HtmlInit
    /\ preview = PreviewInit
    /\ builder = BuilderState
    /\ lessons \in SUBSET StoreRows
    /\ requests = {[kind |-> "list", n |-> 1, id |-> NoId]}
    /\ browser = [BrowserState(TRUE) EXCEPT !.seq = 1, !.lastList = 1]
    /\ LiveInit
    /\ ChatInit
    /\ MediaInit
    /\ app = [AppState EXCEPT !.activeTab = "saved"]
    /\ ProfileIdle

NextBrowser ==
    \/ Refresh
    \/ ListReturn
    \/ HandleOpenLesson
    \/ FullReturn
    \/ HandleDelete
    \/ DeleteReturn
    \/ SetSearchQuery
    \/ SelectLevel
    \/ SelectGrade
    \/ ToggleSort
    \/ ResetFilters

\* the Saved Lessons Browser and the data store
SpecBrowser == InitBrowser /\ [][NextBrowser]_vars

NextChat ==
    \/ HandleSend
    \/ SearchReturn
    \/ FallbackReturn

\* the research chat
SpecChat == InitIdle /\ [][NextChat]_vars

\* the voice tab has just been shown
InitVoice ==
    /\ md = <<>>
    /\ html = HtmlInit
    /\ preview = PreviewInit
    /\ BuilderInit
    /\ LiveInit
    /\ ChatInit
    /\ BrowserIdle
    /\ MediaInit
    /\ app = [AppState EXCEPT !.activeTab = "live"]
    /\ ProfileIdle

NextVoice ==
    \/ VoiceStart
    \/ MicrophoneGranted
    \/ MicrophoneDenied
    \/ OnOpen
    \/ OnClose
    \/ OnError
    \/ VoiceDisconnect
    \/ Tick
    \/ LeaveVoiceTab

\* the sessions of the Live Voice component and the tab bar of App (the
\* messages of a session and their playback are in SpecLive)
SpecVoice == InitVoice /\ [][NextVoice]_vars

\* the user has just signed in: the effect of App has called fetchProfile
InitSettings ==
    /\ md = <<>>
    /\ html = HtmlInit
    /\ preview = PreviewInit
    /\ BuilderInit
    /\ LiveInit
    /\ ChatInit
    /\ BrowserIdle
    /\ MediaInit
    /\ app = AppState
    /\ \E rows \in StoredProfiles :
          profile = [rows |-> rows,
                     requests |-> {[kind |-> "fetch", n |-> 0, served |-> FALSE,
                                    rows |-> {}]},
                     failed |-> FALSE]

NextSettings ==
    \/ ProfileServed
    \/ FetchProfileReturn
    \/ HandleUpdateSettings
    \/ UpsertApplied

\* the settings of App and the profiles row
SpecSettings == InitSettings /\ [][NextSettings]_vars

NextEditor ==
    \/ HandleSubmit
    \/ GenerateReturn
    \/ HandleFormat
    \/ FormatReturn
    \/ HandleSave
    \/ InsertReturn
    \/ UpdateReturn
    \/ EditContent
    \/ SetViewMode
    \/ ResetEditor

\* one lesson session of the Lesson Builder: generate, reformat and save
SpecEditor == InitIdle /\ [][NextEditor]_vars

\* the saved tab has just been shown, and the user goes back and forth
\* between the library and the editor of a saved lesson, waiting for the
\* response of each request before the next click
InitApp == InitBrowser

NextApp ==
    \/ ListReturn
    \/ OpenWhenQuiet
    \/ FullReturn
    \/ SetViewMode
    \/ EditContent
    \/ SaveWhenQuiet
    \/ UpdateReturn
    \/ ResetEditor
    \/ ShowSavedTab
    \/ ShowGeneratorTab

\* the generator and saved tabs of App over the data store
SpecApp == InitApp /\ [][NextApp]_vars

-----------------------------------------------------------------------------
(* Properties of the Lesson Builder and of the Live Voice session *)

\* C1: the store never holds more than one record inserted for the same
\* draft, whatever the order of Save actions and of their responses.
C1_OneRecordPerDraft ==
    \A d \in 1..builder.draft : Cardinality({row \in lessons : row.draft = d}) <= 1

\* C2: the step that completes a generation whose gateway request failed
\* leaves the builder in the form state: an error alert is shown, no content
\* is stored, the editor is not entered and loading is cleared.
C2_FailedGenerationReturnsToForm ==
    [][(builder.lastGen = "pending" /\ builder'.lastGen = "failed")
          => /\ builder'.alert = "generationError"
             /\ builder'.result = Null
             /\ ~builder'.isEditing
             /\ ~builder'.loading]_vars

\* C10: while no interruption signal has been received, of two chunks of
\* one session received one after the other, the second is scheduled to start
\* at or after the start of the first plus the duration of the first.
C10_ChunksScheduledInOrder ==
    audio.interrupts = 0 =>
        \A a \in audio.scheduled : \A b \in audio.scheduled :
            (a.s = b.s /\ b.c = a.c + 1) => b.start >= a.start + a.d

\* the resources a start acquires: the microphone stream, the two nodes of
\* the audio graph and the two audio contexts
ResourcesHeld ==
    \/ live.mediaStream
    \/ live.source
    \/ live.processor
    \/ live.inputAudioContext
    \/ live.outputAudioContext

\* C11: in every state where the Live Voice status is idle or error, no
\* resource acquired by a start (microphone stream, audio graph nodes, audio
\* contexts) is still held.
C11_ReleasedWhenEnded ==
    live.status \in {"idle", "error"} => ~ResourcesHeld

\* C19: the Live Voice status moves only along idle -> connecting ->
\* connected -> idle|error: connecting is entered only from idle or error (a
\* start), and connected is entered only from connecting.
C19_StatusMachine ==
    [][/\ (live'.status = "connecting" /\ live.status # "connecting")
             => live.status \in {"idle", "error"}
       /\ (live'.status = "connected" /\ live.status # "connected")
             => live.status = "connecting"]_vars

-----------------------------------------------------------------------------
(* Properties of the research chat *)

CallsOf(s) == SelectSeq(chat.calls, LAMBDA c : c.send = s)

\* the message shown in reply to send s: the transcript is the welcome
\* message followed by one user message and one reply per send
ReplyTo(s) == chat.messages[2 * s + 1]

C12_SendOk(s) ==
    LET cs == CallsOf(s)
        answered == {i \in 1..Len(cs) : cs[i].outcome \notin {Pending, Threw}}
    IN  /\ Len(cs) \in {1, 2}
        /\ cs[1].tool
        /\ cs[1].outcome = Threw <=> Len(cs) = 2
        /\ Len(cs) = 2 => ~cs[2].tool /\ cs[2].contents = cs[1].contents
        /\ \A i \in answered :
              /\ i = Len(cs)
              /\ Len(chat.messages) >= 2 * s + 1
              /\ ReplyTo(s).role = "model"
              /\ ReplyTo(s).text = AnswerText(cs[i].outcome)
        /\ (Len(cs) = 2 /\ cs[2].outcome = Threw) =>
              /\ Len(chat.messages) >= 2 * s + 1
              /\ ReplyTo(s).text = SearchErrorText
        /\ cs[Len(cs)].outcome = Pending => Len(chat.messages) = 2 * s

\* C12: for every send, a search-grounded call that throws is followed by
\* exactly one further call, without the search tool and with the same
\* contents; the reply shown is the answer of the call that succeeded, and
\* when the fallback throws too no further call is made and the error
\* message is appended.
C12_OneFallback ==
    \A s \in 1..chat.sends : C12_SendOk(s)

\* a send whose search call threw and whose fallback answered, and a send
\* whose two calls both threw
C12_Witness ==
    /\ \E s \in 1..chat.sends :
          /\ Len(CallsOf(s)) = 2
          /\ CallsOf(s)[2].outcome = "r1"
          /\ ReplyTo(s).text = "r1"
    /\ \E s \in 1..chat.sends :
          /\ Len(CallsOf(s)) = 2
          /\ CallsOf(s)[2].outcome = Threw
          /\ ReplyTo(s).text = SearchErrorText

IsWelcomeTurn(t) == t.role = "model" /\ t.text = WelcomeText

\* C13: the contents of every call made to the model start with a user turn
\* and contain no turn that is the welcome message.
C13_HistoryWithoutWelcome ==
    \A i \in 1..Len(chat.calls) :
        LET contents == chat.calls[i].contents
        IN  /\ contents[1].role = "user"
            /\ \A k \in 1..Len(contents) : ~IsWelcomeTurn(contents[k])

\* a call made after an answered send and a failed send
C13_Witness ==
    \E i \in 1..Len(chat.calls) :
        LET contents == chat.calls[i].contents
        IN  /\ \E k \in 1..Len(contents) : contents[k].text = SearchErrorText
            /\ \E k \in 1..Len(contents) : contents[k].text = "r1"

-----------------------------------------------------------------------------
(* Properties of the Saved Lessons Browser *)

FullFetchesInFlight == {r.id : r \in {q \in requests : q.kind = "full"}}

\* C14: onEdit is called with the record of the selected summary, and while
\* the list is shown the cards that show the loading indicator are exactly
\* the cards whose full-record fetch is in flight.
C14_OpenAfterFetch ==
    /\ \A i \in 1..Len(browser.edits) : browser.edits[i].id = browser.edits[i].summary
    /\ View(browser) = "list" =>
          LoadingCards(browser) = CardIds(browser) \cap FullFetchesInFlight

LocalIds(b) == {b.lessons[i].id : i \in 1..Len(b.lessons)}

StoreIds(rows) == {row.id : row \in rows}

\* the deletes whose remote result arrives in this step as a failure
FailedNow ==
    {d \in browser.deletes :
        /\ d.state = "pending"
        /\ [d EXCEPT !.state = "failed"] \in browser'.deletes}

\* a declined confirmation changes neither the local list nor the store, and
\* a confirmed delete removes the item from the local list before the remote
\* result is known
C15_ConfirmStep ==
    /\ (browser'.dialogs = browser.dialogs + 1 /\ browser'.deletes = browser.deletes)
          => /\ browser'.lessons = browser.lessons
             /\ lessons' = lessons
             /\ requests' = requests
    /\ \A d \in {e \in browser'.deletes : \A o \in browser.deletes : o.n # e.n} :
          /\ d.state = "pending"
          /\ d.id \notin LocalIds(browser')
          /\ lessons' = lessons
          /\ \E r \in requests' \ requests : r.kind = "delete" /\ r.id = d.id

\* C15 as stated: delete only after confirmation, local removal before the
\* remote result, and on a failed remote delete an error is reported while
\* the item is not in the local list although it is still in the store.
C15_OptimisticDelete ==
    [][/\ C15_ConfirmStep
       /\ \A d \in FailedNow :
             /\ browser'.alert = "deleteError"
             /\ d.id \notin LocalIds(browser')
             /\ d.id \in StoreIds(lessons')]_vars

\* no lesson of the loaded list passes the three filters together
NoLessonMatches ==
    \A i \in 1..Len(browser.lessons) :
        LET l == browser.lessons[i]
        IN  ~(/\ includes(toLowerCase(l.subject), toLowerCase(browser.searchQuery))
              /\ browser.selectedLevel \in {All, l.level}
              /\ browser.selectedGrade \in {All, l.grade})

NoResultsOnly ==
    /\ filteredLessons(browser) = <<>>
    /\ NoResultsShown(browser)
    /\ Cards(browser) = <<>>
    /\ View(browser) = "list"

\* C18 as stated: once the list has loaded, for any set of lessons and any
\* filters that match no lesson, the filtered result is empty, the
\* "no results" panel is shown and no card is rendered.
C18_NoMatchShowsNoResults ==
    (browser.mounted /\ ~browser.loading /\ NoLessonMatches) => NoResultsOnly

\* C18 amended: the same for any set of lessons that is not empty.
C18_NoMatchShowsNoResultsNonEmpty ==
    (browser.mounted /\ ~browser.loading /\ Len(browser.lessons) > 0 /\ NoLessonMatches)
        => NoResultsOnly

\* a level filter and a search text that pass no lesson together, although
\* some lesson passes each of them
C18_Witness ==
    /\ View(browser) = "list"
    /\ NoLessonMatches
    /\ browser.selectedLevel # All
    /\ browser.searchQuery # <<>>
    /\ \E i \in 1..Len(browser.lessons) : browser.lessons[i].level = browser.selectedLevel
    /\ \E i \in 1..Len(browser.lessons) :
          includes(toLowerCase(browser.lessons[i].subject), toLowerCase(browser.searchQuery))
    /\ NoResultsShown(browser)

\* a comes no later than b in the selected order
InOrder(a, b, sortOrder) ==
    CASE sortOrder = "DATE_DESC" -> a.lastModified >= b.lastModified
      [] sortOrder = "DATE_ASC" -> a.lastModified =< b.lastModified
      [] sortOrder = "ALPHA" -> localeCompare(a.subject, b.subject) =< 0

\* C20: each of the three sort orders can be selected, and every list of
\* cards displayed is in the selected order.  The sort button is the only
\* control that changes the order and the order it selects depends on the
\* current one alone, so the three can be selected exactly when two presses
\* from the initial order have selected all three.
C20_ThreeSortOrders ==
    /\ browser.presses >= 2 => browser.selected = SortOrders
    /\ \A k \in 1..Len(DisplayedLists(browser)) :
          LET list == DisplayedLists(browser)[k]
          IN  \A i, j \in 1..Len(list) :
                  i < j => InOrder(list[i], list[j], browser.sortOrder)

-----------------------------------------------------------------------------
(* Properties of PDF export and read-aloud *)

\* C16: every element handed to the PDF library is the formatted preview
\* subtree, captured while the view is the preview; for an export requested
\* in edit mode the capture comes after the switch to the preview.
C16_CaptureIsPreview ==
    \A c \in media.captures : c.element = "preview" /\ c.viewMode = "preview"

\* an export requested in edit mode has captured the preview, and the timer
\* of another one has found the editor back in edit mode and captured nothing
C16_Witness ==
    /\ \E c \in media.captures : c.from = "edit" /\ c.element = "preview"
    /\ media.exports = 2
    /\ media.timers = {}
    /\ Cardinality(media.captures) = 1
    /\ builder.viewMode = "edit"

\* the read-alouds in progress: speech requested, audio being decoded, or
\* playing
ReadAloudsActive == {r.n : r \in media.speech} \cup {p.n : p \in media.playing}

\* C17: at most one read-aloud request or playback is active at any time.
C17_OneReadAloud ==
    Cardinality(ReadAloudsActive) =< 1

-----------------------------------------------------------------------------
(* Properties of a lesson session *)

\* the generate, reformat and save requests awaiting their response
PendingOperations ==
    {r \in requests : r.kind \in {"generate", "format", "insert", "update"}}

\* C21: within one lesson session generate, reformat and save are serialized
\* by disabled controls: at most one of them is pending at any time.
C21_OneOperationPending == Cardinality(PendingOperations) <= 1

\* C29: a reformat that returns never replaces content that is newer than
\* the text the request was issued against: the edits made while it was
\* pending are still there after it.
C29_EditsSurviveReformat ==
    [][\A r \in requests :
          (r.kind = "format" /\ r \notin requests' /\ EditorShown
             /\ builder.result # r.content)
          => builder'.result = builder.result]_vars

-----------------------------------------------------------------------------
(* Properties of the playback of a Live Voice session *)

\* source.start(when) starts the buffer at when, or at once when that time
\* has passed
PlayStart(c) == Max(c.start, c.at)

StillToPlay(c) == PlayStart(c) + c.d > audio.now

Overlap(a, b) == PlayStart(a) < PlayStart(b) + b.d /\ PlayStart(b) < PlayStart(a) + a.d

\* only the first session of the component has been started, and its output
\* context is open: every chunk scheduled so far is on that context
FirstSessionPlaying ==
    /\ live.outputAudioContext
    /\ \A n \in 2..MaxSessions : sessions[n] = "unused"

\* C22: in a session, whatever chunks and interruption signals were
\* received, the playback intervals [start, start + duration) of the chunks
\* still to play are pairwise disjoint.
C22_NoOverlap ==
    FirstSessionPlaying =>
        \A a \in audio.scheduled : \A b \in audio.scheduled :
            (a # b /\ StillToPlay(a) /\ StillToPlay(b)) => ~Overlap(a, b)

\* C23: the first chunk received after an interruption signal is scheduled
\* to start at the current time of the output context, not at the end of
\* the audio queued before the signal.
C23_StartsNowAfterInterruption ==
    FirstSessionPlaying =>
        \A b \in audio.scheduled : b.after => PlayStart(b) = b.at

\* a later session than n has been started and has not ended
LaterSessionActive(n) ==
    \E m \in (n + 1)..MaxSessions : sessions[m] \in {"microphone", "connecting", "open"}

\* the step is the close or error callback of session n
CallbackOfEnded(n) ==
    /\ sessions[n] \in {"connecting", "open", "closing"}
    /\ sessions'[n] \in {"closing", "closed"}
    /\ sessions'[n] # sessions[n]
    /\ live.session # n \/ ~live.isConnected

\* C25: a close or error callback of an earlier session leaves the
\* microphone, the audio nodes, the audio contexts and the status of a later
\* session as they are.
C25_StaleCallbackHarmless ==
    [][\A n \in 1..MaxSessions :
          (CallbackOfEnded(n) /\ LaterSessionActive(n))
          => /\ live'.status = live.status
             /\ live'.mediaStream = live.mediaStream
             /\ live'.processor = live.processor
             /\ live'.source = live.source
             /\ live'.inputAudioContext = live.inputAudioContext
             /\ live'.outputAudioContext = live.outputAudioContext]_vars

\* C30: no Live Voice resource is held while the component is not mounted:
\* leaving the voice tab releases the microphone stream, the audio nodes
\* and both audio contexts.
C30_ReleasedWhenUnmounted == ~VoiceTabShown => ~ResourcesHeld

-----------------------------------------------------------------------------
(* Properties of the settings *)

\* C24: after updates whose mirror writes all succeeded, once every write
\* and the profile fetch have completed, the profiles row equals the
\* settings in memory and both hold the value of the last update.
C24_LastWriteWins ==
    (profile.requests = {} /\ app.updates > 0 /\ ~profile.failed)
    => /\ profile.rows = {RowOf(app.themeSettings)}
       /\ app.themeSettings = app.intended

-----------------------------------------------------------------------------
(* Properties of the fetches of the Saved Lessons Browser *)

\* the summary-list fetches awaiting their response
ListFetches == {r \in requests : r.kind = "list"}

\* the full-record fetches awaiting their response
FullFetches == {r \in requests : r.kind = "full"}

\* C26: while the browser is shown, once every summary-list fetch has
\* completed (none of them with an error) the list displayed is the result
\* of the fetch issued last, and the loading flag is false only when no
\* list fetch is in flight.
C26_LatestListShown ==
    browser.mounted =>
        /\ (ListFetches = {} /\ ~browser.listError) => browser.listed = browser.lastList
        /\ ~browser.loading => ListFetches = {}

\* the call of onEdit for the lesson selected last, among the selections
\* whose fetch returned a row
LastSelected ==
    CHOOSE e \in {browser.edits[i] : i \in 1..Len(browser.edits)} :
        \A i \in 1..Len(browser.edits) : browser.edits[i].n <= e.n

\* C28: once the full-record fetches of the lessons selected have all
\* returned, the lesson open in the editor is the one selected last,
\* whatever the order in which the fetches completed.
C28_LastSelectedOpened ==
    (FullFetches = {} /\ browser.edits # <<>>)
    => /\ app.lessonToEdit # NoLesson
       /\ app.lessonToEdit[1].id = LastSelected.id
       /\ builder.currentLessonId = LastSelected.id

-----------------------------------------------------------------------------
(* Properties of the editor of a saved lesson *)

\* C27: whenever the editor is shown for a saved record id and holds no
\* unsaved edit, the content shown is the content last saved to the store
\* for that id.
C27_EditorShowsLastSaved ==
    (app.activeTab = "generator" /\ EditorShown /\ builder.currentLessonId # NoId
       /\ ~builder.unsaved)
    => \A row \in lessons :
          row.id = builder.currentLessonId => builder.result = row.content

====
